---- MODULE Spec2Model ----
(***************************************************************************)
(* Durable external-process execution pipeline of fastchain/agents:        *)
(* the shell variant (src/generic/workflows.py, src/generic/mcp_server.py) *)
(* and the scan variant (src/generic/nmap/workflows.py,                     *)
(* src/generic/nmap/mcp_server.py).                                         *)
(*                                                                         *)
(* A text is a sequence of one-character strings.  Values that may be      *)
(* absent are records [set |-> FALSE] or [set |-> TRUE, val |-> v].        *)
(***************************************************************************)
EXTENDS Integers, Sequences, FiniteSets, TLC

VARIABLES
    runs,       \* the engine's workflow runs, one per task identifier
    procs,      \* the OS process of the current execute attempt, per task
    orphans,    \* per task: processes of ended attempts that are still alive
    registry,   \* _task_registry / _scan_registry of the MCP server
    resp,       \* the value returned by the most recent tool call
    calls       \* the tool calls of the MCP server suspended at an await

vars == <<runs, procs, orphans, registry, resp, calls>>

(***************************************************************************)
(* Bounds of the model.                                                    *)
(***************************************************************************)
MaxTargetLen == 1       \* longest scan target drawn in SpecScan
MaxArgsLen == 4         \* longest option string drawn in SpecScan

\* the identifiers uuid4 can produce
TaskIds == {"task-a", "task-b"}

NoValue == [set |-> FALSE]
Some(v) == [set |-> TRUE, val |-> v]

\* no tool call is suspended: list_recent_tasks is not iterating and
\* run_quick_command is not waiting
NoCalls ==
    [list |-> [active |-> FALSE],
     quick |-> [active |-> FALSE]]

(***************************************************************************)
(* Texts.                                                                  *)
(***************************************************************************)
\* str.strip() removes leading and trailing whitespace
IsSpace(c) == c \in {" ", "\t", "\n", "\r", "\f"}

\* `not s.strip()`
StripIsEmpty(s) == \A i \in DOMAIN s : IsSpace(s[i])

\* all texts over alphabet A of length at most n
RECURSIVE TextsUpTo(_, _)
TextsUpTo(A, n) ==
    IF n = 0 THEN {<<>>}
    ELSE LET shorter == TextsUpTo(A, n - 1)
         IN  shorter \cup {Append(s, c) : s \in shorter, c \in A}

\* str.lower() on the characters of the model's alphabet
LowerChar(c) ==
    CASE c = "A" -> "a"
      [] c = "D" -> "d"
      [] c = "G" -> "g"
      [] c = "I" -> "i"
      [] c = "L" -> "l"
      [] c = "N" -> "n"
      [] c = "O" -> "o"
      [] c = "R" -> "r"
      [] c = "T" -> "t"
      [] c = "X" -> "x"
      [] OTHER -> c

Lower(s) == [i \in DOMAIN s |-> LowerChar(s[i])]

\* bytes.decode("utf-8", errors="replace"): an undecodable byte becomes U+FFFD
DecodeChar(b) == IF b = "\\xff" THEN "\\ufffd" ELSE b

Decode(bytes) == [i \in DOMAIN bytes |-> DecodeChar(bytes[i])]

(***************************************************************************)
(* Activity outcomes: a returned value or a raised exception.              *)
(***************************************************************************)
Returned(v) == [ok |-> TRUE, val |-> v]
Raised(e) == [ok |-> FALSE, err |-> e]

(***************************************************************************)
(* Input Validator, shell variant.                                         *)
(***************************************************************************)
\* validate_command without the strip(): only the empty command is rejected
validate_command_nostrip(cmd_input) ==
    IF cmd_input.command = <<>>
    THEN Raised([type |-> "ValueError", msg |-> "Command must not be empty"])
    ELSE Returned(TRUE)

validate_command(cmd_input) ==
    IF StripIsEmpty(cmd_input.command)
    THEN Raised([type |-> "ValueError", msg |-> "Command must not be empty"])
    ELSE Returned(TRUE)

(***************************************************************************)
(* Input Validator, scan variant.                                          *)
(***************************************************************************)
\* the backquote character (the parser accepts no backquote inside a string)
Backquote == "BACKQUOTE"

BLOCKED_METACHARACTERS ==
    {";", "&", "|", Backquote, "$", "(", ")", "{", "}", "<", ">", "\n", "\r"}

BLOCKED_FLAGS ==
    { <<"-", "-", "s", "c", "r", "i", "p", "t", "-", "a", "r", "g", "s">>,
      <<"-", "i", "l">>,
      <<"-", "o", "n">>,
      <<"-", "o", "x">>,
      <<"-", "o", "g">>,
      <<"-", "o", "a">>,
      <<"-", "-", "d", "a", "t", "a", "d", "i", "r">> }

\* BLOCKED_METACHARACTERS.search(s)
SearchMeta(s) == \E i \in DOMAIN s : s[i] \in BLOCKED_METACHARACTERS

\* shlex in POSIX mode, as shlex.split sets it up: whitespace_split, no
\* commenters, single and double quotes, backslash escape, and the double
\* quote as the only quote inside which the escape is active.
ShlexWhitespace == {" ", "\t", "\r", "\n"}
ShlexQuotes == {"'", "\""}
ShlexEscape == {"\\"}
ShlexEscapedQuotes == {"\""}

\* shlex.read_token, iterated over the whole text by shlex.split.
\*   i       next character to read
\*   state   "ws" (between tokens), "a" (in a word), a quote, or the escape
\*   esc     escapedstate: the state to return to after an escaped character
\*   token   the token accumulated so far
\*   quoted  the token has seen a quote (an empty quoted token is a token)
\*   out     the tokens emitted so far
RECURSIVE ShlexRun(_, _, _, _, _, _, _)
ShlexRun(s, i, state, esc, token, quoted, out) ==
    LET emit == IF token # <<>> \/ quoted THEN Append(out, token) ELSE out
    IN
    IF i > Len(s)
    THEN \* end of input
         IF state \in ShlexQuotes
         THEN [ok |-> FALSE, msg |-> "No closing quotation"]
         ELSE IF state \in ShlexEscape
         THEN [ok |-> FALSE, msg |-> "No escaped character"]
         ELSE [ok |-> TRUE, tokens |-> emit]
    ELSE
    LET c == s[i] IN
    IF state = "ws"
    THEN IF c \in ShlexWhitespace
         THEN ShlexRun(s, i + 1, "ws", esc, <<>>, FALSE, out)
         ELSE IF c \in ShlexEscape
         THEN ShlexRun(s, i + 1, c, "a", <<>>, FALSE, out)
         ELSE IF c \in ShlexQuotes
         THEN ShlexRun(s, i + 1, c, esc, <<>>, FALSE, out)
         ELSE ShlexRun(s, i + 1, "a", esc, <<c>>, FALSE, out)
    ELSE IF state \in ShlexQuotes
    THEN IF c = state
         THEN ShlexRun(s, i + 1, "a", esc, token, TRUE, out)
         ELSE IF c \in ShlexEscape /\ state \in ShlexEscapedQuotes
         THEN ShlexRun(s, i + 1, c, state, token, TRUE, out)
         ELSE ShlexRun(s, i + 1, state, esc, Append(token, c), TRUE, out)
    ELSE IF state \in ShlexEscape
    THEN LET kept == IF esc \in ShlexQuotes /\ c # state /\ c # esc
                     THEN Append(token, state)
                     ELSE token
         IN  ShlexRun(s, i + 1, esc, esc, Append(kept, c), quoted, out)
    ELSE \* state = "a"
         IF c \in ShlexWhitespace
         THEN ShlexRun(s, i + 1, "ws", esc, <<>>, FALSE, emit)
         ELSE IF c \in ShlexQuotes
         THEN ShlexRun(s, i + 1, c, esc, token, quoted, out)
         ELSE IF c \in ShlexEscape
         THEN ShlexRun(s, i + 1, c, "a", token, quoted, out)
         ELSE ShlexRun(s, i + 1, "a", esc, Append(token, c), quoted, out)

\* shlex.split(s)
ShlexSplit(s) == ShlexRun(s, 1, "ws", "ws", <<>>, FALSE, <<>>)

\* token.split("=", 1)[0]
BeforeEquals(token) ==
    IF \E i \in DOMAIN token : token[i] = "="
    THEN LET k == CHOOSE i \in DOMAIN token :
                     /\ token[i] = "="
                     /\ \A j \in 1..(i - 1) : token[j] # "="
         IN  SubSeq(token, 1, k - 1)
    ELSE token

\* the canonical form without lower(): the flag is compared as written
Canonical_as_written(token) == BeforeEquals(token)

\* canonical = token.split("=", 1)[0].lower()
Canonical(token) == Lower(BeforeEquals(token))

\* tokens = shlex.split(args) if args.strip() else []
ArgTokens(args) ==
    IF StripIsEmpty(args) THEN [ok |-> TRUE, tokens |-> <<>>] ELSE ShlexSplit(args)

ValueError(msg) == Raised([type |-> "ValueError", msg |-> msg])

\* validate_scan_input without the metacharacter search of the arguments
validate_scan_input_target_only(scan_input) ==
    LET target == scan_input.target
        args == scan_input.nmap_args
        split == ArgTokens(args)
    IN  IF SearchMeta(target)
        THEN ValueError("Target contains blocked characters")
        ELSE IF ~split.ok
        THEN ValueError("Arguments are not parseable")
        ELSE IF \E k \in DOMAIN split.tokens :
                    Canonical(split.tokens[k]) \in BLOCKED_FLAGS
        THEN ValueError("Blocked nmap flag")
        ELSE IF StripIsEmpty(target)
        THEN ValueError("Target must not be empty")
        ELSE Returned(TRUE)

validate_scan_input(scan_input) ==
    LET target == scan_input.target
        args == scan_input.nmap_args
        split == ArgTokens(args)
    IN  IF SearchMeta(target)
        THEN ValueError("Target contains blocked characters")
        ELSE IF SearchMeta(args)
        THEN ValueError("Arguments contain blocked characters")
        ELSE IF ~split.ok
        THEN ValueError("Arguments are not parseable")
        ELSE IF \E k \in DOMAIN split.tokens :
                    Canonical(split.tokens[k]) \in BLOCKED_FLAGS
        THEN ValueError("Blocked nmap flag")
        ELSE IF StripIsEmpty(target)
        THEN ValueError("Target must not be empty")
        ELSE Returned(TRUE)

(***************************************************************************)
(* Process Executor.  A finished process is a record                       *)
(*   [stdout, stderr, exit_code]                                           *)
(* of the bytes it wrote and the code it exited with.  The stdout of a     *)
(* scan is [chars, wf, root]: its characters, whether they form a          *)
(* well-formed XML document, and then the document's element tree.         *)
(***************************************************************************)
\* cmd = ["sh", "-c", cmd_input.command]
ShellCmd(cmd_input) == <<<<"s", "h">>, <<"-", "c">>, cmd_input.command>>

\* a scan executor that joins its words into one line for a shell
NmapCmd_through_shell(scan_input) ==
    <<<<"s", "h">>, <<"-", "c">>,
      <<"n", "m", "a", "p", " ">> \o scan_input.nmap_args \o <<" ", "-", "o", "X", " ", "-", " ">> \o scan_input.target>>

\* args_tokens = shlex.split(nmap_args) if nmap_args.strip() else []
\* cmd = ["nmap", *args_tokens, "-oX", "-", scan_input.target]
NmapCmd(scan_input) ==
    <<<<"n", "m", "a", "p">>>> \o ArgTokens(scan_input.nmap_args).tokens
        \o <<<<"-", "o", "X">>, <<"-">>, scan_input.target>>

\* the argv handed to asyncio.create_subprocess_exec
SpawnArgv(variant, input) ==
    IF variant = "shell" THEN ShellCmd(input) ELSE NmapCmd(input)

\* the tail of run_shell_command, after both drains and proc.wait()
run_shell_command(proc) ==
    Returned([stdout |-> Decode(proc.stdout),
              stderr |-> Decode(proc.stderr),
              exit_code |-> proc.exit_code])

\* run_nmap_scan failing every non-zero exit, whatever was written to stdout
run_nmap_scan_strict(proc) ==
    LET stdout_str == [proc.stdout EXCEPT !.chars = Decode(@)]
        stderr_str == Decode(proc.stderr)
    IN  IF proc.exit_code # 0
        THEN Raised([type |-> "RuntimeError",
                     exit_code |-> proc.exit_code,
                     stderr |-> stderr_str])
        ELSE Returned(stdout_str)

\* the tail of run_nmap_scan, after both drains and proc.wait()
run_nmap_scan(proc) ==
    LET stdout_str == [proc.stdout EXCEPT !.chars = Decode(@)]
        stderr_str == Decode(proc.stderr)
    IN  IF proc.exit_code # 0 /\ StripIsEmpty(stdout_str.chars)
        THEN Raised([type |-> "RuntimeError",
                     exit_code |-> proc.exit_code,
                     stderr |-> stderr_str])
        ELSE Returned(stdout_str)

(***************************************************************************)
(* Result Structurer, shell variant.                                       *)
(***************************************************************************)
STDOUT_PREVIEW == 2000
STDERR_PREVIEW == 500

\* s[:n]
Prefix(s, n) == SubSeq(s, 1, IF Len(s) < n THEN Len(s) ELSE n)

\* str(n) for an integer
DigitChars == <<"0", "1", "2", "3", "4", "5", "6", "7", "8", "9">>

RECURSIVE Digits(_)
Digits(n) ==
    IF n < 10 THEN <<DigitChars[n + 1]>>
    ELSE Digits(n \div 10) \o <<DigitChars[(n % 10) + 1]>>

Str(n) == IF n < 0 THEN <<"-">> \o Digits(0 - n) ELSE Digits(n)

\* sep.join(parts), from the i-th part on
RECURSIVE JoinFrom(_, _, _)
JoinFrom(parts, sep, i) ==
    IF i > Len(parts) THEN <<>>
    ELSE IF i = Len(parts) THEN parts[i]
    ELSE parts[i] \o sep \o JoinFrom(parts, sep, i + 1)

\* sep.join(parts); the list of parts is evaluated once
Join(parts, sep) ==
    CHOOSE text \in {JoinFrom(p, sep, 1) : p \in {parts}} : TRUE

\* " [truncated]"
TruncatedSuffix == <<" ", "[", "t", "r", "u", "n", "c", "a", "t", "e", "d", "]">>

\* f"\n{name} ({len(text)} bytes):\n{preview}" + (" [truncated]" if truncated else "")
\* with a preview one character short and a marker set one character early
OutputBlock_off_by_one(name, text, limit) ==
    <<"\n">> \o name \o <<" ", "(">> \o Str(Len(text)) \o <<" ", "b", "y", "t", "e", "s", ")", ":", "\n">>
        \o Prefix(text, limit - 1)
        \o (IF Len(text) >= limit THEN TruncatedSuffix ELSE <<>>)

\* f"\n{name} ({len(text)} bytes):\n{preview}" + (" [truncated]" if truncated else "")
OutputBlock(name, text, limit) ==
    <<"\n">> \o name \o <<" ", "(">> \o Str(Len(text)) \o <<" ", "b", "y", "t", "e", "s", ")", ":", "\n">>
        \o Prefix(text, limit)
        \o (IF Len(text) > limit THEN TruncatedSuffix ELSE <<>>)

\* summary_parts of format_output, joined by "\n"
ShellSummary(stdout, stderr, exit_code) ==
    LET head == <<"C", "o", "m", "m", "a", "n", "d", " ", "e", "x", "i", "t", "e", "d", " ", "w", "i", "t", "h", " ", "c", "o", "d", "e", " ">> \o Str(exit_code) \o <<".">>
        out_part ==
            IF ~StripIsEmpty(stdout)
            THEN OutputBlock(<<"s", "t", "d", "o", "u", "t">>, stdout, STDOUT_PREVIEW)
            ELSE <<"\n", "N", "o", " ", "s", "t", "d", "o", "u", "t", " ", "o", "u", "t", "p", "u", "t", ".">>
        err_part ==
            IF ~StripIsEmpty(stderr)
            THEN <<OutputBlock(<<"s", "t", "d", "e", "r", "r">>, stderr, STDERR_PREVIEW)>>
            ELSE <<>>
    IN  Join(<<head, out_part>> \o err_part, <<"\n">>)

\* format_output reading the exit code under a key the executor never sets
format_output_wrong_key(raw) ==
    Returned([stdout |-> raw.stdout,
              stderr |-> raw.stderr,
              exit_code |-> -1,
              summary |-> ShellSummary(raw.stdout, raw.stderr, -1)])

\* format_output: the result copies the three fields and adds the summary
format_output(raw) ==
    LET stdout == raw.stdout
        stderr == raw.stderr
        exit_code == raw.exit_code
    IN  Returned([stdout |-> stdout,
                  stderr |-> stderr,
                  exit_code |-> exit_code,
                  summary |-> ShellSummary(stdout, stderr, exit_code)])

(***************************************************************************)
(* Result Structurer, scan variant.  An element tree is                    *)
(*   [runstats |-> absent or [up, down, total],                            *)
(*    hosts |-> sequence of [status, addr, ports]],                        *)
(* a port is [portid, protocol, state, service], where state and service   *)
(* are absent when the port has no such child element.                     *)
(***************************************************************************)
\* the tree of a text that is no document
NoTree == [runstats |-> NoValue, hosts |-> <<>>]

\* a parser that skips what it cannot read: a malformed document gives an
\* empty tree
ET_fromstring_lenient(raw_xml) ==
    IF raw_xml.wf
    THEN Returned(raw_xml.root)
    ELSE Returned(NoTree)

\* ET.fromstring(raw_xml)
ET_fromstring(raw_xml) ==
    IF raw_xml.wf
    THEN Returned(raw_xml.root)
    ELSE Raised([type |-> "ParseError"])

\* a listing of every port that has a state element, whatever the state
OpenPorts_any_state(ports) ==
    SelectSeq(ports, LAMBDA p : p.state.set)

\* [p for p in host["ports"] if p.get("state") == "open"]
RECURSIVE OpenPorts(_)
OpenPorts(ports) ==
    IF ports = <<>> THEN <<>>
    ELSE LET p == Head(ports)
             rest == OpenPorts(Tail(ports))
         IN  IF p.state.set /\ p.state.val = "open" THEN <<p>> \o rest ELSE rest

\* f"{p['port']}/{p['protocol']} ({p.get('service', 'unknown')})"
PortItem(p) ==
    Str(p.portid) \o <<"/">> \o p.protocol \o <<" ", "(">>
        \o (IF p.service.set THEN p.service.val ELSE <<"u", "n", "k", "n", "o", "w", "n">>)
        \o <<")">>

\* ", ".join(... for p in open_ports)
OpenPortsSummary(ports) ==
    LET open == OpenPorts(ports)
    IN  Join([k \in DOMAIN open |-> PortItem(open[k])], <<",", " ">>)

ParseHost(h) ==
    [status |-> h.status,
     addresses |-> <<h.addr>>,
     ports |-> h.ports,
     open_ports_summary |-> OpenPortsSummary(h.ports)]

\* scan_info.get('hosts_up', '?')
CountOr(v) == IF v.set THEN Str(v.val) ELSE <<"?">>

\* the lines of the digest for the host at position k
HostLines(hosts, k) ==
    << <<"\n", "H", "o", "s", "t", " ">> \o Str(k) \o <<":", " ">>
           \o Join(hosts[k].addresses, <<",", " ">>)
           \o <<" ", "[">> \o hosts[k].status \o <<"]">>,
       IF hosts[k].open_ports_summary # <<>>
       THEN <<" ", " ", "O", "p", "e", "n", " ", "p", "o", "r", "t", "s", ":", " ">> \o hosts[k].open_ports_summary
       ELSE <<" ", " ", "N", "o", " ", "o", "p", "e", "n", " ", "p", "o", "r", "t", "s", " ", "f", "o", "u", "n", "d", ".">> >>

RECURSIVE DigestLines(_, _)
DigestLines(hosts, k) ==
    IF k > Len(hosts) THEN <<>>
    ELSE HostLines(hosts, k) \o DigestLines(hosts, k + 1)

\* the digest and the result, from the parsed hosts
Digest(root, hosts) ==
    LET hosts_up == IF root.runstats.set THEN Some(root.runstats.val.up) ELSE NoValue
        hosts_total == IF root.runstats.set THEN Some(root.runstats.val.total) ELSE NoValue
        header == <<"N", "m", "a", "p", " ", "s", "c", "a", "n", " ", "c", "o", "m", "p", "l", "e", "t", "e", "d", ".", " ">> \o CountOr(hosts_up) \o <<" ", "h", "o", "s", "t", "(", "s", ")", " ", "u", "p", " ", "o", "u", "t", " ", "o", "f", " ">>
                      \o CountOr(hosts_total) \o <<" ", "s", "c", "a", "n", "n", "e", "d", ".">>
    IN  [scan_info |-> [hosts_up |-> hosts_up, hosts_total |-> hosts_total],
         hosts |-> hosts,
         summary |-> Join(<<header>> \o DigestLines(hosts, 1), <<"\n">>)]

\* the body of parse_nmap_xml after ET.fromstring; the list of hosts is
\* built once and used for the result and for the digest
ParseTree(root) ==
    CHOOSE result \in
        {Digest(r, [k \in DOMAIN r.hosts |-> ParseHost(r.hosts[k])]) : r \in {root}} :
            TRUE

parse_nmap_xml(raw_xml) ==
    LET tree == ET_fromstring(raw_xml)
    IN  IF tree.ok THEN Returned(ParseTree(tree.val)) ELSE tree

(***************************************************************************)
(* Pipeline Orchestrator: ShellCommandWorkflow.run and NmapScanWorkflow.run *)
(* as the engine drives them.  A run is                                    *)
(*   stage     the execute_activity call the workflow is awaiting          *)
(*             ("validate", "execute", "structure"), or "done", "failed"   *)
(*   attempts  attempts started so far, per stage                          *)
(*   inflight  an attempt of the current stage is running                  *)
(*   worker    "up" while the worker running the attempt is alive          *)
(*   beat      minutes since the attempt's last liveness signal            *)
(*   raw       the value the execute stage returned                        *)
(*   result    the value the workflow returned                             *)
(*   error     the error of the last failed attempt                        *)
(*   log       the stage events so far, oldest first                       *)
(***************************************************************************)
Stages == {"validate", "execute", "structure"}

VALIDATE_MAX_ATTEMPTS == 1
EXECUTE_MAX_ATTEMPTS == 3
STRUCTURE_MAX_ATTEMPTS == 2
HEARTBEAT_TIMEOUT_MINUTES == 2

\* every stage under the retry policy of the execute stage
maximum_attempts_same(stage) == EXECUTE_MAX_ATTEMPTS

\* RetryPolicy(maximum_attempts=...) of each execute_activity call
maximum_attempts(stage) ==
    CASE stage = "validate" -> VALIDATE_MAX_ATTEMPTS
      [] stage = "execute" -> EXECUTE_MAX_ATTEMPTS
      [] stage = "structure" -> STRUCTURE_MAX_ATTEMPTS

NoProc == [phase |-> "none", out |-> NoValue]

NewRun(variant, input) ==
    [variant |-> variant,
     input |-> input,
     stage |-> "validate",
     attempts |-> [validate |-> 0, execute |-> 0, structure |-> 0],
     inflight |-> FALSE,
     worker |-> "up",
     beat |-> 0,
     raw |-> NoValue,
     result |-> NoValue,
     error |-> NoValue,
     log |-> <<>>]

\* the engine knows no run under the identifier
NoRun == [NewRun("none", NoValue) EXCEPT !.stage = "none"]

Exists(t) == runs[t].stage # "none"
Active(t) == runs[t].stage \in Stages
ProcAlive(t) == procs[t].phase \in {"open", "closed"}

Event(stage, what) == [stage |-> stage, what |-> what]

\* the statement of run() that follows the awaited stage
NextStage(stage) ==
    CASE stage = "validate" -> "execute"
      [] stage = "execute" -> "structure"
      [] stage = "structure" -> "done"

\* The engine starts an attempt of the stage the workflow awaits.  An
\* execute attempt spawns its process at once (create_subprocess_exec).
Dispatch(t) ==
    /\ Active(t)
    /\ ~runs[t].inflight
    /\ runs[t].attempts[runs[t].stage] < maximum_attempts(runs[t].stage)
    /\ runs' = [runs EXCEPT
           ![t].inflight = TRUE,
           ![t].worker = "up",
           ![t].beat = 0,
           ![t].attempts[runs[t].stage] = @ + 1,
           ![t].log = Append(@, Event(runs[t].stage, "dispatch"))]
    /\ procs' = IF runs[t].stage = "execute"
                THEN [procs EXCEPT ![t] =
                         [phase |-> "open", out |-> NoValue,
                          argv |-> SpawnArgv(runs[t].variant, runs[t].input)]]
                ELSE procs
    /\ UNCHANGED <<calls, orphans, registry, resp>>

\* a failure that never ends the workflow: an exhausted stage stays as it is
AfterFailure_stays(run, err) ==
    [run EXCEPT
        !.inflight = FALSE,
        !.error = Some(err),
        !.log = Append(@, Event(run.stage, "fail"))]

\* a workflow that swallows the failure of an exhausted stage and goes on
AfterFailure_goes_on(run, err) ==
    [run EXCEPT
        !.inflight = FALSE,
        !.error = Some(err),
        !.log = Append(@, Event(run.stage, "fail")),
        !.stage = IF run.attempts[run.stage] >= maximum_attempts(run.stage)
                  THEN NextStage(run.stage)
                  ELSE @]

\* The run after an attempt of its current stage has failed with err:
\* retried while the stage has attempts left, else the workflow fails.
AfterFailure(run, err) ==
    [run EXCEPT
        !.inflight = FALSE,
        !.error = Some(err),
        !.log = Append(@, Event(run.stage, "fail")),
        !.stage = IF run.attempts[run.stage] >= maximum_attempts(run.stage)
                  THEN "failed"
                  ELSE @]

\* The run after an attempt of its current stage has returned val.
AfterSuccess(run, val) ==
    [run EXCEPT
        !.inflight = FALSE,
        !.log = Append(@, Event(run.stage, "ok")),
        !.raw = IF run.stage = "execute" THEN Some(val) ELSE @,
        !.result = IF run.stage = "structure" THEN Some(val) ELSE @,
        !.stage = NextStage(run.stage)]

\* a workflow that hands its input, not the execute stage's value, to the
\* structurer, which then reads its defaults
ActivityOutcome_input(run, proc) ==
    CASE run.stage = "validate" ->
            IF run.variant = "shell"
            THEN validate_command(run.input)
            ELSE validate_scan_input(run.input)
      [] run.stage = "execute" ->
            IF run.variant = "shell"
            THEN run_shell_command(proc.out.val)
            ELSE run_nmap_scan(proc.out.val)
      [] run.stage = "structure" ->
            IF run.variant = "shell"
            THEN format_output([stdout |-> <<>>, stderr |-> <<>>, exit_code |-> -1])
            ELSE parse_nmap_xml([chars |-> <<>>, wf |-> FALSE, root |-> NoTree])

\* an executor that collects output in one buffer shared by all tasks: it
\* returns what the first finished process of the server wrote
ActivityOutcome_shared(run, proc) ==
    CASE run.stage = "validate" ->
            IF run.variant = "shell"
            THEN validate_command(run.input)
            ELSE validate_scan_input(run.input)
      [] run.stage = "execute" ->
            LET first == CHOOSE u \in TaskIds : procs[u].out.set
            IN  IF run.variant = "shell"
                THEN run_shell_command(procs[first].out.val)
                ELSE run_nmap_scan(procs[first].out.val)
      [] run.stage = "structure" ->
            IF run.variant = "shell"
            THEN format_output(run.raw.val)
            ELSE parse_nmap_xml(run.raw.val)

\* What the activity function of the run's current stage returns or raises.
ActivityOutcome(run, proc) ==
    CASE run.stage = "validate" ->
            IF run.variant = "shell"
            THEN validate_command(run.input)
            ELSE validate_scan_input(run.input)
      [] run.stage = "execute" ->
            IF run.variant = "shell"
            THEN run_shell_command(proc.out.val)
            ELSE run_nmap_scan(proc.out.val)
      [] run.stage = "structure" ->
            IF run.variant = "shell"
            THEN format_output(run.raw.val)
            ELSE parse_nmap_xml(run.raw.val)

\* a failed attempt that takes the attempts of all other tasks down with it
ActivityReturns_failing_all(t) ==
    /\ Active(t)
    /\ runs[t].inflight
    /\ runs[t].worker = "up"
    /\ runs[t].stage = "execute" =>
           /\ procs[t].phase = "exited"
           /\ runs[t].beat < HEARTBEAT_TIMEOUT_MINUTES
    /\ LET outcome == ActivityOutcome(runs[t], procs[t])
       IN  runs' = [u \in TaskIds |->
               IF u = t
               THEN IF outcome.ok
                    THEN AfterSuccess(runs[t], outcome.val)
                    ELSE AfterFailure(runs[t], outcome.err)
               ELSE IF ~outcome.ok /\ Active(u) /\ runs[u].inflight
                    THEN AfterFailure(runs[u], outcome.err)
                    ELSE runs[u]]
    /\ UNCHANGED <<procs, orphans, registry, resp, calls>>

\* The running attempt's activity function finishes.  The execute activity
\* finishes only after its process has exited (await proc.wait()), and the
\* engine takes its completion only while the heartbeat deadline has not
\* passed.
ActivityReturns(t) ==
    /\ Active(t)
    /\ runs[t].inflight
    /\ runs[t].worker = "up"
    /\ runs[t].stage = "execute" =>
           /\ procs[t].phase = "exited"
           /\ runs[t].beat < HEARTBEAT_TIMEOUT_MINUTES
    /\ LET outcome == ActivityOutcome(runs[t], procs[t])
       IN  runs' = [runs EXCEPT ![t] =
               IF outcome.ok
               THEN AfterSuccess(runs[t], outcome.val)
               ELSE AfterFailure(runs[t], outcome.err)]
    /\ UNCHANGED <<calls, procs, orphans, registry, resp>>

\* The process of an attempt the engine has ended is left as it is: the
\* activity is cancelled or its worker is gone, and nothing signals the
\* process.
Abandon(t) ==
    /\ procs' = [procs EXCEPT ![t] =
           IF runs[t].stage = "execute" THEN NoProc ELSE @]
    /\ orphans' = [orphans EXCEPT ![t] =
           IF runs[t].stage = "execute" /\ ProcAlive(t) THEN @ + 1 ELSE @]

\* The attempt exceeds start_to_close_timeout (a heartbeat deadline that has
\* already passed is acted on first).
StartToCloseTimeout(t) ==
    /\ Active(t)
    /\ runs[t].inflight
    /\ ~(runs[t].stage = "execute" /\ runs[t].beat >= HEARTBEAT_TIMEOUT_MINUTES)
    /\ runs' = [runs EXCEPT ![t] =
           AfterFailure(runs[t], [type |-> "TimeoutError",
                                  timeout |-> "START_TO_CLOSE"])]
    /\ Abandon(t)
    /\ UNCHANGED <<calls, registry, resp>>

\* The worker running the attempt dies or stops being scheduled.
WorkerCrash(t) ==
    /\ Active(t)
    /\ runs[t].inflight
    /\ runs[t].worker = "up"
    /\ runs' = [runs EXCEPT ![t].worker = "down"]
    /\ UNCHANGED <<calls, procs, orphans, registry, resp>>

\* A minute passes in which the execute attempt emits no liveness signal:
\* the heartbeat loop is not running, because the worker is down or both
\* stream drains are already complete.
SilentMinute(t) ==
    /\ runs[t].stage = "execute"
    /\ runs[t].inflight
    /\ runs[t].worker = "down" \/ procs[t].phase = "closed"
    /\ runs[t].beat < HEARTBEAT_TIMEOUT_MINUTES
    /\ runs' = [runs EXCEPT ![t].beat = @ + 1]
    /\ UNCHANGED <<calls, procs, orphans, registry, resp>>

\* a lost heartbeat taken as final: the workflow fails at once
HeartbeatTimeout_fatal(t) ==
    /\ runs[t].stage = "execute"
    /\ runs[t].inflight
    /\ runs[t].beat >= HEARTBEAT_TIMEOUT_MINUTES
    /\ runs' = [runs EXCEPT
           ![t].inflight = FALSE,
           ![t].error = Some([type |-> "TimeoutError", timeout |-> "HEARTBEAT"]),
           ![t].log = Append(@, Event("execute", "fail")),
           ![t].stage = "failed"]
    /\ Abandon(t)
    /\ UNCHANGED <<calls, registry, resp>>

\* heartbeat_timeout: no liveness signal for the whole deadline.
HeartbeatTimeout(t) ==
    /\ runs[t].stage = "execute"
    /\ runs[t].inflight
    /\ runs[t].beat >= HEARTBEAT_TIMEOUT_MINUTES
    /\ runs' = [runs EXCEPT ![t] =
           AfterFailure(runs[t], [type |-> "TimeoutError",
                                  timeout |-> "HEARTBEAT"])]
    /\ Abandon(t)
    /\ UNCHANGED <<calls, registry, resp>>

(***************************************************************************)
(* The spawned processes.                                                  *)
(***************************************************************************)
ExitCodes == {0, 1}
Stderrs == {<<>>, <<"e">>}
ShellStdouts == {<<>>, <<" ">>, <<"o", "\\xff">>}

\* one host up, port 22/tcp open running ssh, port 80/tcp closed
FixtureTree ==
    [runstats |-> Some([up |-> 1, down |-> 0, total |-> 1]),
     hosts |-> << [status |-> <<"u", "p">>,
                   addr |-> <<"1", "0", ".", "0", ".", "0", ".", "1">>,
                   ports |-> << [portid |-> 22, protocol |-> <<"t", "c", "p">>,
                                 state |-> Some("open"),
                                 service |-> Some(<<"s", "s", "h">>)],
                                [portid |-> 80, protocol |-> <<"t", "c", "p">>,
                                 state |-> Some("closed"),
                                 service |-> NoValue] >>] >>]

ScanStdouts ==
    { [chars |-> <<>>, wf |-> FALSE, root |-> NoTree],
      [chars |-> <<"\n">>, wf |-> FALSE, root |-> NoTree],
      [chars |-> <<"<", "n">>, wf |-> FALSE, root |-> NoTree],
      [chars |-> <<"<", "n", ">">>, wf |-> TRUE, root |-> FixtureTree] }

\* what a process of the variant can have written and returned at exit
Outcomes(variant) ==
    IF variant = "shell"
    THEN [stdout : ShellStdouts, stderr : Stderrs, exit_code : ExitCodes]
    ELSE [stdout : ScanStdouts, stderr : Stderrs, exit_code : ExitCodes]

\* The process closes both output streams and keeps running.
ProcClosesStreams(t) ==
    /\ procs[t].phase = "open"
    /\ procs' = [procs EXCEPT ![t].phase = "closed"]
    /\ UNCHANGED <<calls, runs, orphans, registry, resp>>

\* The process exits.  Its output reaches the activity only while the
\* worker that drains the pipes is alive.
ProcExits(t) ==
    /\ ProcAlive(t)
    /\ \E o \in Outcomes(runs[t].variant) :
          procs' = [procs EXCEPT ![t] =
              [phase |-> "exited",
               out |-> IF runs[t].worker = "up" THEN Some(o) ELSE NoValue,
               argv |-> procs[t].argv]]
    /\ UNCHANGED <<calls, runs, orphans, registry, resp>>

\* A process left behind by an ended attempt exits by itself.
OrphanExits(t) ==
    /\ orphans[t] > 0
    /\ orphans' = [orphans EXCEPT ![t] = @ - 1]
    /\ UNCHANGED <<calls, runs, procs, registry, resp>>

(***************************************************************************)
(* Task Registry and Status Poller (the MCP tools).                        *)
(***************************************************************************)
\* desc.status of a run: a WorkflowExecutionStatus, whose name is the text
\* after the prefix WORKFLOW_EXECUTION_STATUS_
EngineStatus(run) ==
    [none |-> FALSE,
     prefixed |-> FALSE,
     base |-> CASE run.stage \in Stages -> "RUNNING"
                [] run.stage = "done" -> "COMPLETED"
                [] run.stage = "failed" -> "FAILED"
                [] run.stage = "canceled" -> "CANCELED"
                [] run.stage = "terminated" -> "TERMINATED"]

\* raw.replace("WORKFLOW_EXECUTION_STATUS_", "", 1) on a prefixed name
normalize_workflow_status(status_obj) ==
    IF status_obj.none THEN "UNKNOWN" ELSE status_obj.base

NoRecord == [present |-> FALSE]

\* len(_task_registry)
Size(reg) == Cardinality({t \in TaskIds : reg[t].present})

\* the Task Record written for a new task; started_at is a clock that
\* advances with every record
NewRecord(input, label) ==
    [present |-> TRUE,
     input |-> input,
     label |-> label,
     started_at |-> Size(registry),
     status |-> "RUNNING"]

\* label or command[:60]
LABEL_CHARS == 60
DefaultLabel(variant, input) ==
    IF variant = "shell"
    THEN [text |-> Prefix(input.command, LABEL_CHARS)]
    ELSE [scan_of |-> input.target]

\* an identifier is in use once the registry or the engine holds it
Used(t) == Exists(t) \/ registry[t].present

\* an identifier that is not drawn but fixed, so that every call uses it
DrawnId_fixed(t) == t = "task-a"

\* task_id = f"task-{uuid.uuid4().hex[:12]}": the identifier a call draws
\* is one not in use (identifiers are interchangeable, so the draws are
\* taken in one order)
DrawnId(t) ==
    /\ ~Used(t)
    /\ t = "task-b" => Used("task-a")

\* a start that submits the run and returns without writing the Task Record
start_task_unrecorded(t, variant, input, label) ==
    /\ ~Active(t)
    /\ runs' = [runs EXCEPT ![t] = NewRun(variant, input)]
    /\ resp' = [op |-> "start", task_id |-> t, raised |-> FALSE,
                body |-> [task_id |-> t, status |-> "RUNNING"]]
    /\ UNCHANGED <<calls, procs, orphans, registry>>

\* start_command / start_nmap_scan with the identifier t it has drawn.
\* start_workflow is refused (WorkflowAlreadyStartedError) while a run is
\* open under the identifier; otherwise the run is started and the record
\* is written under the identifier, whatever was there.
start_task(t, variant, input, label) ==
    IF Active(t)
    THEN /\ resp' = [op |-> "start", task_id |-> t, raised |-> TRUE,
                     body |-> [error |-> "WorkflowAlreadyStartedError"]]
         /\ UNCHANGED <<runs, procs, orphans, registry, calls>>
    ELSE /\ runs' = [runs EXCEPT ![t] = NewRun(variant, input)]
         /\ registry' = [registry EXCEPT ![t] =
                NewRecord(input, IF label # <<>> THEN [text |-> label]
                                 ELSE DefaultLabel(variant, input))]
         /\ resp' = [op |-> "start", task_id |-> t, raised |-> FALSE,
                     body |-> [task_id |-> t, status |-> "RUNNING"]]
         /\ UNCHANGED <<calls, procs, orphans>>

\* {**base, **result}: the keys of result win
Spread(base, result) ==
    [k \in DOMAIN base \cup DOMAIN result |->
        IF k \in DOMAIN result THEN result[k] ELSE base[k]]

\* the advisory message of check_task_status
StatusMessage(status_name) ==
    CASE status_name = "COMPLETED" -> "Task finished!"
      [] status_name = "FAILED" -> "Task failed."
      [] status_name = "RUNNING" -> "Task is still running."
      [] OTHER -> "Workflow status"

\* a check that adopts an identifier the registry does not hold: it writes
\* the observed status under the key whether or not the key exists
check_task_status_adopting(t) ==
    IF ~Exists(t)
    THEN /\ resp' = [op |-> "check", task_id |-> t, raised |-> TRUE,
                     body |-> [error |-> "RPCError"]]
         /\ UNCHANGED <<calls, runs, procs, orphans, registry>>
    ELSE LET status_name == normalize_workflow_status(EngineStatus(runs[t]))
         IN  /\ registry' = IF registry[t].present
                            THEN [registry EXCEPT ![t].status = status_name]
                            ELSE [registry EXCEPT ![t] =
                                    [NewRecord(runs[t].input,
                                               DefaultLabel("shell", runs[t].input))
                                        EXCEPT !.status = status_name]]
             /\ resp' = [op |-> "check", task_id |-> t, raised |-> FALSE,
                         body |-> [task_id |-> t, status |-> status_name,
                                   message |-> StatusMessage(status_name)]]
             /\ UNCHANGED <<calls, runs, procs, orphans>>

\* check_task_status / check_scan_status
check_task_status(t) ==
    IF ~Exists(t)
    THEN \* handle.describe() raises: the engine knows no such run
         /\ resp' = [op |-> "check", task_id |-> t, raised |-> TRUE,
                     body |-> [error |-> "RPCError"]]
         /\ UNCHANGED <<calls, runs, procs, orphans, registry>>
    ELSE LET status_name == normalize_workflow_status(EngineStatus(runs[t]))
             result == [task_id |-> t, status |-> status_name,
                        message |-> StatusMessage(status_name)]
         IN  /\ registry' = IF registry[t].present
                            THEN [registry EXCEPT ![t].status = status_name]
                            ELSE registry
             /\ resp' = [op |-> "check", task_id |-> t, raised |-> FALSE,
                         body |-> IF registry[t].present
                                  THEN Spread(result,
                                           [label |-> registry[t].label,
                                            input |-> registry[t].input,
                                            started_at |-> registry[t].started_at])
                                  ELSE result]
             /\ UNCHANGED <<calls, runs, procs, orphans>>

\* a fetch that also reports the status the registry had cached
FetchBody_cached(t, result) ==
    Spread([task_id |-> t, status |-> "COMPLETED",
            cached |-> IF registry[t].present THEN registry[t].status
                       ELSE "UNKNOWN"],
           result)

\* {"task_id": ..., "status": "COMPLETED", **result}
FetchBody(t, result) ==
    Spread([task_id |-> t, status |-> "COMPLETED"], result)

\* a fetch without the status test: it awaits handle.result() at once, so
\* it returns only when the run has closed and raises unless it completed
get_task_results_waiting(t) ==
    IF ~Exists(t)
    THEN /\ resp' = [op |-> "fetch", task_id |-> t, raised |-> TRUE,
                     body |-> [error |-> "RPCError"]]
         /\ UNCHANGED <<runs, procs, orphans, registry, calls>>
    ELSE /\ ~Active(t)
         /\ IF runs[t].stage = "done"
            THEN /\ registry' = IF registry[t].present
                                THEN [registry EXCEPT ![t].status = "COMPLETED"]
                                ELSE registry
                 /\ resp' = [op |-> "fetch", task_id |-> t, raised |-> FALSE,
                             body |-> FetchBody(t, runs[t].result.val)]
            ELSE /\ resp' = [op |-> "fetch", task_id |-> t, raised |-> TRUE,
                             body |-> [error |-> "WorkflowFailureError"]]
                 /\ UNCHANGED registry
         /\ UNCHANGED <<runs, procs, orphans, calls>>

\* get_task_results / get_scan_results
get_task_results(t) ==
    IF ~Exists(t)
    THEN /\ resp' = [op |-> "fetch", task_id |-> t, raised |-> TRUE,
                     body |-> [error |-> "RPCError"]]
         /\ UNCHANGED <<calls, runs, procs, orphans, registry>>
    ELSE LET status_name == normalize_workflow_status(EngineStatus(runs[t]))
         IN  IF status_name # "COMPLETED"
             THEN /\ resp' = [op |-> "fetch", task_id |-> t, raised |-> FALSE,
                              body |-> [task_id |-> t, status |-> status_name,
                                        error |-> "Task is not yet complete"]]
                  /\ UNCHANGED <<calls, runs, procs, orphans, registry>>
             ELSE /\ registry' = IF registry[t].present
                                 THEN [registry EXCEPT ![t].status = "COMPLETED"]
                                 ELSE registry
                  /\ resp' = [op |-> "fetch", task_id |-> t, raised |-> FALSE,
                              body |-> FetchBody(t, runs[t].result.val)]
                  /\ UNCHANGED <<calls, runs, procs, orphans>>

\* The run is closed from outside the workflow, through the engine's own
\* interface: cancelled or terminated.  The attempt in flight is given up and
\* its process is left as it is.
OperatorCloses(t, how) ==
    /\ Active(t)
    /\ runs' = [runs EXCEPT
           ![t].inflight = FALSE,
           ![t].log = Append(@, Event(runs[t].stage, how)),
           ![t].stage = how]
    /\ Abandon(t)
    /\ UNCHANGED <<registry, resp, calls>>

\* the key inserted k-th into the registry (a dict iterates in insertion
\* order), counting from 0
KeyAt(reg, k) == CHOOSE t \in TaskIds : reg[t].present /\ reg[t].started_at = k

\* {"task_id": task_id, **meta}
ListEntry(reg, t) == Spread([task_id |-> t], reg[t])

\* The for loop of list_recent_tasks from the pos-th key on, run up to its
\* next await: the dict iterator raises when the dict no longer has the
\* size it had when the iteration began; an entry cached as RUNNING or
\* UNKNOWN suspends the call at handle.describe().
RECURSIVE ListLoop(_, _, _, _)
ListLoop(reg, used, pos, tasks) ==
    IF Size(reg) # used
    THEN [kind |-> "raise"]
    ELSE IF pos >= used
    THEN [kind |-> "return", tasks |-> tasks]
    ELSE LET t == KeyAt(reg, pos)
         IN  IF reg[t].status \in {"RUNNING", "UNKNOWN"}
             THEN [kind |-> "await", pos |-> pos, tasks |-> tasks,
                   entry |-> ListEntry(reg, t)]
             ELSE ListLoop(reg, used, pos + 1, Append(tasks, ListEntry(reg, t)))

\* what the call does when the loop has run to out
ListOutcome(out, used) ==
    CASE out.kind = "return" ->
            /\ resp' = [op |-> "list", raised |-> FALSE,
                        body |-> [total |-> Len(out.tasks), tasks |-> out.tasks]]
            /\ calls' = [calls EXCEPT !.list = [active |-> FALSE]]
      [] out.kind = "raise" ->
            /\ resp' = [op |-> "list", raised |-> TRUE,
                        body |-> [error |-> "RuntimeError"]]
            /\ calls' = [calls EXCEPT !.list = [active |-> FALSE]]
      [] out.kind = "await" ->
            /\ calls' = [calls EXCEPT !.list =
                   [active |-> TRUE, used |-> used, pos |-> out.pos,
                    tasks |-> out.tasks, entry |-> out.entry]]
            /\ UNCHANGED resp

\* list_recent_tasks / list_recent_scans is called and runs to its first
\* await or to its end.
list_recent_tasks ==
    /\ ~calls.list.active
    /\ ListOutcome(ListLoop(registry, Size(registry), 0, <<>>), Size(registry))
    /\ UNCHANGED <<runs, procs, orphans, registry>>

\* a listing that stores UNKNOWN in the record when the query fails
list_resumes_caching_unknown ==
    /\ calls.list.active
    /\ LET l == calls.list
           t == l.entry.task_id
       IN  \E answered \in BOOLEAN :
              /\ answered => Exists(t)
              /\ IF answered
                 THEN LET status_name ==
                              normalize_workflow_status(EngineStatus(runs[t]))
                          reg == [registry EXCEPT ![t].status = status_name]
                      IN  /\ registry' = reg
                          /\ ListOutcome(
                                 ListLoop(reg, l.used, l.pos + 1,
                                     Append(l.tasks,
                                         [l.entry EXCEPT !.status = status_name])),
                                 l.used)
                 ELSE /\ registry' = [registry EXCEPT ![t].status = "UNKNOWN"]
                      /\ ListOutcome(
                             ListLoop(registry, l.used, l.pos + 1,
                                 Append(l.tasks,
                                     [l.entry EXCEPT !.status = "UNKNOWN"])),
                             l.used)
    /\ UNCHANGED <<runs, procs, orphans>>

\* The suspended listing resumes: handle.describe() has answered with the
\* run's status, or has raised (the engine cannot be reached, or knows no
\* run under the identifier); then the loop goes on.
list_resumes ==
    /\ calls.list.active
    /\ LET l == calls.list
           t == l.entry.task_id
       IN  \E answered \in BOOLEAN :
              /\ answered => Exists(t)
              /\ IF answered
                 THEN LET status_name ==
                              normalize_workflow_status(EngineStatus(runs[t]))
                          reg == [registry EXCEPT ![t].status = status_name]
                      IN  /\ registry' = reg
                          /\ ListOutcome(
                                 ListLoop(reg, l.used, l.pos + 1,
                                     Append(l.tasks,
                                         [l.entry EXCEPT !.status = status_name])),
                                 l.used)
                 ELSE /\ registry' = registry
                      /\ ListOutcome(
                             ListLoop(registry, l.used, l.pos + 1,
                                 Append(l.tasks,
                                     [l.entry EXCEPT !.status = "UNKNOWN"])),
                             l.used)
    /\ UNCHANGED <<runs, procs, orphans>>

\* "label": command[:60]  /  f"Quick scan of {target}"
QuickLabel(variant, input) ==
    IF variant = "shell"
    THEN [text |-> Prefix(input.command, LABEL_CHARS)]
    ELSE [quick_scan_of |-> input.target]

\* run_quick_command / run_quick_scan is called: it writes the Task Record
\* and suspends in execute_workflow.
run_quick_task(t, variant, input) ==
    /\ ~calls.quick.active
    /\ registry' = [registry EXCEPT ![t] =
           NewRecord(input, QuickLabel(variant, input))]
    /\ calls' = [calls EXCEPT !.quick =
           [active |-> TRUE, task_id |-> t, variant |-> variant,
            input |-> input, submitted |-> FALSE]]
    /\ UNCHANGED <<runs, procs, orphans, resp>>

\* execute_workflow submits the run: the engine accepts it, or the request
\* fails and the call raises.
run_quick_submits ==
    /\ calls.quick.active
    /\ ~calls.quick.submitted
    /\ LET q == calls.quick
       IN  \E accepted \in BOOLEAN :
              /\ accepted => ~Active(q.task_id)
              /\ IF accepted
                 THEN
                   /\ runs' = [runs EXCEPT ![q.task_id] =
                          NewRun(q.variant, q.input)]
                   /\ calls' = [calls EXCEPT !.quick.submitted = TRUE]
                   /\ UNCHANGED resp
                 ELSE
                   /\ resp' = [op |-> "quick", task_id |-> q.task_id,
                               raised |-> TRUE, body |-> [error |-> "RPCError"]]
                   /\ calls' = [calls EXCEPT !.quick = [active |-> FALSE]]
                   /\ UNCHANGED runs
    /\ UNCHANGED <<procs, orphans, registry>>

\* execute_workflow returns the result of the completed run, or raises for
\* a run that has closed otherwise.
run_quick_returns ==
    /\ calls.quick.active
    /\ calls.quick.submitted
    /\ LET t == calls.quick.task_id
       IN  /\ Exists(t)
           /\ ~Active(t)
           /\ IF runs[t].stage = "done"
              THEN /\ registry' = [registry EXCEPT ![t].status = "COMPLETED"]
                   /\ resp' = [op |-> "quick", task_id |-> t, raised |-> FALSE,
                               body |-> FetchBody(t, runs[t].result.val)]
              ELSE /\ resp' = [op |-> "quick", task_id |-> t, raised |-> TRUE,
                               body |-> [error |-> "WorkflowFailureError"]]
                   /\ UNCHANGED registry
    /\ calls' = [calls EXCEPT !.quick = [active |-> FALSE]]
    /\ UNCHANGED <<runs, procs, orphans>>

(***************************************************************************)
(* The system: one task is started and driven through its pipeline while   *)
(* the caller polls.                                                       *)
(***************************************************************************)
ShellCommands == {<<>>, <<" ">>, <<"\t", "\n", "\f">>, <<" ", "l", "s">>}

ScanInputs ==
    { [target |-> <<"h">>, nmap_args |-> <<"-", "F">>],
      [target |-> <<"h", ";">>, nmap_args |-> <<"-", "F">>],
      [target |-> <<"h">>, nmap_args |-> <<"-", "o", "X", "=", "f">>],
      [target |-> <<" ">>, nmap_args |-> <<>>] }

Labels == {<<>>, <<"L">>}

\* the identifier the start call draws
FreshIds == {"task-a"}

Init ==
    /\ runs = [t \in TaskIds |-> NoRun]
    /\ procs = [t \in TaskIds |-> NoProc]
    /\ orphans = [t \in TaskIds |-> 0]
    /\ registry = [t \in TaskIds |-> NoRecord]
    /\ resp = [op |-> "none"]
    /\ calls = NoCalls

start_command ==
    \E t \in FreshIds, c \in ShellCommands, l \in Labels :
        DrawnId(t) /\ start_task(t, "shell", [command |-> c], l)

start_nmap_scan ==
    \E t \in FreshIds, i \in ScanInputs, l \in Labels :
        DrawnId(t) /\ start_task(t, "scan", i, l)

Next ==
    \/ start_command
    \/ start_nmap_scan
    \/ \E t \in TaskIds : check_task_status(t)
    \/ \E t \in TaskIds : get_task_results(t)
    \/ \E t \in TaskIds : Dispatch(t)
    \/ \E t \in TaskIds : ActivityReturns(t)
    \/ \E t \in TaskIds : StartToCloseTimeout(t)
    \/ \E t \in TaskIds : WorkerCrash(t)
    \/ \E t \in TaskIds : SilentMinute(t)
    \/ \E t \in TaskIds : HeartbeatTimeout(t)
    \/ \E t \in TaskIds : ProcClosesStreams(t)
    \/ \E t \in TaskIds : ProcExits(t)
    \/ \E t \in TaskIds : OrphanExits(t)

Spec == Init /\ [][Next]_vars

\* The engine keeps driving a run: it dispatches the stage the workflow
\* awaits, takes the completion of a live worker, and fires its timers.
FairSpec ==
    /\ Spec
    /\ \A t \in TaskIds :
          /\ WF_vars(Dispatch(t))
          /\ WF_vars(ActivityReturns(t))
          /\ WF_vars(StartToCloseTimeout(t))
          /\ WF_vars(HeartbeatTimeout(t))

(***************************************************************************)
(* Properties.                                                             *)
(***************************************************************************)
Started == {t \in TaskIds : Exists(t)}

LastEvent(t) ==
    IF runs[t].log = <<>> THEN Event("none", "none")
    ELSE runs[t].log[Len(runs[t].log)]

Occurs(log, ev, before) == \E j \in 1..(before - 1) : log[j] = ev

CountEvents(log, ev) == Cardinality({i \in DOMAIN log : log[i] = ev})

\* C1: every stage attempt is dispatched only after the previous attempt has
\* ended; an execute attempt (and so any process) only after validate has
\* succeeded; a structure attempt only after an execute attempt has
\* succeeded, its process has exited and its output is stored.
C1_StagesInOrder ==
    \A t \in Started :
        LET log == runs[t].log IN
        /\ \A i \in DOMAIN log :
              log[i].what = "dispatch" =>
                 /\ i > 1 => log[i - 1].what # "dispatch"
                 /\ log[i].stage = "validate" =>
                        \A j \in 1..(i - 1) : log[j].stage = "validate"
                 /\ log[i].stage = "execute" =>
                        /\ Occurs(log, Event("validate", "ok"), i)
                        /\ ~Occurs(log, Event("execute", "ok"), i)
                 /\ log[i].stage = "structure" =>
                        /\ Occurs(log, Event("validate", "ok"), i)
                        /\ Occurs(log, Event("execute", "ok"), i)
        /\ (procs[t].phase # "none" \/ orphans[t] > 0) =>
              Occurs(log, Event("validate", "ok"), Len(log) + 1)
        /\ runs[t].attempts.structure > 0 =>
              /\ runs[t].raw.set
              /\ procs[t].phase = "exited"
              /\ procs[t].out.set

C1_Witness ==
    \E t \in Started :
        /\ runs[t].attempts.structure > 0
        /\ runs[t].attempts.execute > 1

\* C3: validate is attempted at most once, execute at most 3 times and
\* structure at most 2 times, and the log holds one dispatch per attempt.
C3_AttemptBudgets ==
    \A t \in Started :
        /\ runs[t].attempts.validate <= 1
        /\ runs[t].attempts.execute <= 3
        /\ runs[t].attempts.structure <= 2
        /\ \A s \in Stages :
              CountEvents(runs[t].log, Event(s, "dispatch")) = runs[t].attempts[s]

C3_Witness ==
    \E t \in Started :
        /\ runs[t].attempts.validate = 1
        /\ runs[t].attempts.execute = 3
        /\ runs[t].attempts.structure = 2
        /\ CountEvents(runs[t].log, Event("execute", "fail")) = 2
        /\ runs[t].stage = "failed"

BlankCommand(t) ==
    /\ Exists(t)
    /\ runs[t].variant = "shell"
    /\ StripIsEmpty(runs[t].input.command)

C2_Safe ==
    \A t \in TaskIds :
        BlankCommand(t) =>
            /\ runs[t].stage \in {"validate", "failed"}
            /\ runs[t].attempts.execute = 0
            /\ procs[t].phase = "none"
            /\ orphans[t] = 0
            /\ ~runs[t].raw.set
            /\ CountEvents(runs[t].log, Event("validate", "ok")) = 0
            /\ (runs[t].attempts.validate = 1 /\ ~runs[t].inflight) =>
                   /\ runs[t].stage = "failed"
                   /\ runs[t].error.set

\* C2: a shell task whose command is empty or all whitespace never passes
\* validation, never has an execute attempt or a process, and reaches
\* FAILED.
C2_BlankCommandFails ==
    /\ []C2_Safe
    /\ \A t \in TaskIds : BlankCommand(t) ~> (runs[t].stage = "failed")

C2_Witness ==
    \E t \in TaskIds :
        /\ BlankCommand(t)
        /\ runs[t].input.command # <<>>
        /\ runs[t].stage = "failed"
        /\ runs[t].error.val.type = "ValueError"

C4_Safe ==
    \A t \in Started :
        /\ (Active(t) /\ ~runs[t].inflight) =>
              runs[t].attempts[runs[t].stage] <
                 (CASE runs[t].stage = "validate" -> 1
                    [] runs[t].stage = "execute" -> 3
                    [] runs[t].stage = "structure" -> 2)
        /\ runs[t].stage = "failed" =>
              /\ LastEvent(t).what = "fail"
              /\ runs[t].error.set
              /\ ~runs[t].inflight
              /\ ~runs[t].result.set
              /\ LastEvent(t).stage = "validate" =>
                    runs[t].attempts.execute = 0 /\ runs[t].attempts.structure = 0
              /\ LastEvent(t).stage = "execute" => runs[t].attempts.structure = 0
              /\ normalize_workflow_status(EngineStatus(runs[t])) = "FAILED"

\* C4: a stage that has used its attempts without a success leaves the
\* task FAILED with no later stage attempted, and a FAILED run never
\* changes again.
C4_FailedIsFinal ==
    /\ []C4_Safe
    /\ [][\A t \in TaskIds : runs[t].stage = "failed" => runs'[t] = runs[t]]_vars

C4_Witness ==
    \E t \in Started :
        /\ runs[t].stage = "failed"
        /\ LastEvent(t).stage = "execute"
        /\ runs[t].attempts.execute = 3
        /\ resp.op = "check"
        /\ ~resp.raised
        /\ resp.body.status = "FAILED"

\* what the structurer of the variant makes of what the executor of the
\* variant returns for a finished process
StructuredFrom(variant, proc) ==
    IF variant = "shell"
    THEN format_output(run_shell_command(proc).val).val
    ELSE parse_nmap_xml(run_nmap_scan(proc).val).val

\* C5: the result of a completed run is the structurer applied to the
\* value returned by the execute attempt that succeeded, which is the
\* attempt whose process is the last one spawned.
C5_ResultFromSuccessfulAttempt ==
    \A t \in Started :
        /\ runs[t].raw.set =>
              /\ procs[t].phase = "exited"
              /\ procs[t].out.set
              /\ runs[t].raw.val =
                    (IF runs[t].variant = "shell"
                     THEN run_shell_command(procs[t].out.val).val
                     ELSE run_nmap_scan(procs[t].out.val).val)
              /\ CountEvents(runs[t].log, Event("execute", "ok")) = 1
        /\ runs[t].result.set = (runs[t].stage = "done")
        /\ runs[t].stage = "done" =>
              runs[t].result.val = StructuredFrom(runs[t].variant, procs[t].out.val)

C5_Witness ==
    \E t \in Started :
        /\ runs[t].stage = "done"
        /\ runs[t].variant = "scan"
        /\ CountEvents(runs[t].log, Event("execute", "fail")) = 2
        /\ runs[t].result.val.hosts # <<>>

\* C6: a fetch of a shell task that answers COMPLETED carries the exit code
\* the task's process exited with, zero or not.
C6_ExitCodeReported ==
    (resp.op = "fetch" /\ ~resp.raised /\ resp.body.status = "COMPLETED"
        /\ runs[resp.task_id].variant = "shell") =>
            /\ ~StripIsEmpty(runs[resp.task_id].input.command)
            /\ procs[resp.task_id].phase = "exited"
            /\ resp.body.exit_code = procs[resp.task_id].out.val.exit_code

C6_Witness ==
    /\ resp.op = "fetch"
    /\ ~resp.raised
    /\ resp.body.status = "COMPLETED"
    /\ runs[resp.task_id].variant = "shell"
    /\ resp.body.exit_code = 1
    /\ resp.body.stdout = <<>>
    /\ registry[resp.task_id].status = "COMPLETED"

\* the activity of the last execute attempt has returned or raised
ExecuteReturned(t) ==
    /\ Exists(t)
    /\ procs[t].phase = "exited"
    /\ procs[t].out.set
    /\ LastEvent(t).stage = "execute"
    /\ LastEvent(t).what \in {"ok", "fail"}

\* the attempt failed with an execution error carrying p's exit code and
\* stderr, and is retried while the execute stage has attempts left
FailedWith(t, p) ==
    /\ LastEvent(t).what = "fail"
    /\ runs[t].error.set
    /\ runs[t].error.val.type = "RuntimeError"
    /\ runs[t].error.val.exit_code = p.exit_code
    /\ runs[t].error.val.stderr = Decode(p.stderr)
    /\ ~runs[t].raw.set
    /\ runs[t].stage = (IF runs[t].attempts.execute < 3 THEN "execute" ELSE "failed")

\* the attempt succeeded and returned p's output
SucceededWith(t, p) ==
    /\ LastEvent(t).what = "ok"
    /\ runs[t].stage = "structure"
    /\ runs[t].raw.set
    /\ runs[t].raw.val =
          (IF runs[t].variant = "shell"
           THEN [stdout |-> Decode(p.stdout), stderr |-> Decode(p.stderr),
                 exit_code |-> p.exit_code]
           ELSE [p.stdout EXCEPT !.chars = Decode(@)])

StdoutChars(variant, p) == IF variant = "shell" THEN p.stdout ELSE p.stdout.chars

\* C7 as stated: in both variants a non-zero exit with no standard output
\* at all fails the attempt, and every other exit succeeds.
C7_Original ==
    \A t \in Started :
        ExecuteReturned(t) =>
            LET p == procs[t].out.val IN
            IF p.exit_code # 0 /\ StdoutChars(runs[t].variant, p) = <<>>
            THEN FailedWith(t, p)
            ELSE SucceededWith(t, p)

\* C7 amended: in the scan variant a non-zero exit whose standard output is
\* empty or all whitespace fails the attempt with the exit code and stderr,
\* and every other exit succeeds with the output; in the shell variant
\* every exit succeeds with stdout, stderr and the exit code.
C7_ExecuteOutcome ==
    \A t \in Started :
        ExecuteReturned(t) =>
            LET p == procs[t].out.val IN
            IF /\ runs[t].variant = "scan"
               /\ p.exit_code # 0
               /\ StripIsEmpty(Decode(p.stdout.chars))
            THEN FailedWith(t, p)
            ELSE SucceededWith(t, p)

C7_Witness ==
    \E t \in Started :
        /\ ExecuteReturned(t)
        /\ runs[t].variant = "scan"
        /\ procs[t].out.val.exit_code = 1
        /\ procs[t].out.val.stdout.chars = <<"\n">>
        /\ procs[t].out.val.stderr = <<"e">>
        /\ LastEvent(t).what = "fail"
        /\ runs[t].attempts.execute = 2

\* the execute attempt has gone the heartbeat deadline without a signal
Silent(t) ==
    /\ runs[t].stage = "execute"
    /\ runs[t].inflight
    /\ runs[t].beat >= 2

HeartbeatError == [type |-> "TimeoutError", timeout |-> "HEARTBEAT"]

C8_Safe ==
    \A t \in Started :
        /\ runs[t].beat <= 2
        /\ (runs[t].stage = "failed" /\ runs[t].error.val = HeartbeatError) =>
              /\ LastEvent(t) = Event("execute", "fail")
              /\ runs[t].attempts.execute = 3
              /\ runs[t].attempts.structure = 0
              /\ ~runs[t].raw.set
              /\ ~runs[t].result.set

\* the only thing the engine does with a silent attempt (whose worker may
\* still die meanwhile): it declares the attempt lost, and the stage is
\* retried unless this was the third attempt
C8_Step ==
    \A t \in TaskIds :
        (Silent(t) /\ [runs'[t] EXCEPT !.worker = runs[t].worker] # runs[t]) =>
            /\ ~runs'[t].inflight
            /\ runs'[t].error = Some(HeartbeatError)
            /\ runs'[t].log = Append(runs[t].log, Event("execute", "fail"))
            /\ runs'[t].attempts = runs[t].attempts
            /\ runs'[t].stage =
                  (IF runs[t].attempts.execute < 3 THEN "execute" ELSE "failed")

\* C8: an execute attempt silent for the heartbeat deadline is declared
\* lost and the stage retried; lost on the third attempt, the task is
\* FAILED with the execute stage's timeout error and structure never runs.
C8_LostHeartbeat ==
    /\ []C8_Safe
    /\ [][C8_Step]_vars
    /\ \A t \in TaskIds : Silent(t) ~> ~runs[t].inflight
    /\ \A t \in TaskIds :
          (Silent(t) /\ runs[t].attempts.execute = 3) ~> (runs[t].stage = "failed")

C8_Witness ==
    \E t \in Started :
        /\ runs[t].stage = "failed"
        /\ runs[t].error.val = HeartbeatError
        /\ orphans[t] = 3

(***************************************************************************)
(* The scan validator over all short inputs: a scan task is started with   *)
(* any target and option string up to the bounds, plus a few longer option *)
(* strings, and driven until its first process is spawned or it fails.     *)
(***************************************************************************)
TargetAlphabet == {"h", ";", " "}
ArgsAlphabet == {"-", "o", "X", "=", " ", "'", "\\", ";"}

LongArgs ==
    { <<"-", "-", "D", "a", "t", "a", "d", "i", "r", "=", "x">>,
      <<"-", "F", " ", "\"", "-", "i", "L", "\"">>,
      <<"-", "s", "T", " ", "-", "O", "a", "=">>,
      <<"-", "o", "\\", "G">>,
      <<"-", "o", "N", " ", "f">>,
      <<"-", "s", "V", " ", "\"", "a">>,
      <<"-", "p", "2", "2", Backquote>>,
      <<"-", "s", "T", " ", "-", "p", "2", "2">> }

\* one input per metacharacter, in the target and in the option string
MetaInputs ==
    { [target |-> <<"h", c>>, nmap_args |-> <<"-", "F">>] :
          c \in BLOCKED_METACHARACTERS }
    \cup
    { [target |-> <<"h">>, nmap_args |-> <<"-", "p", c, "1">>] :
          c \in BLOCKED_METACHARACTERS }

ScanDraws ==
    [target : TextsUpTo(TargetAlphabet, MaxTargetLen),
     nmap_args : TextsUpTo(ArgsAlphabet, MaxArgsLen) \cup LongArgs]
    \cup MetaInputs

ScanInit ==
    /\ \E scan_input \in ScanDraws :
          /\ runs = [t \in TaskIds |->
                IF t \in FreshIds THEN NewRun("scan", scan_input) ELSE NoRun]
          /\ registry = [t \in TaskIds |->
                IF t \in FreshIds
                THEN [present |-> TRUE,
                      input |-> scan_input,
                      label |-> [scan_of |-> scan_input.target],
                      started_at |-> 0,
                      status |-> "RUNNING"]
                ELSE NoRecord]
    /\ procs = [t \in TaskIds |-> NoProc]
    /\ orphans = [t \in TaskIds |-> 0]
    /\ resp = [op |-> "start", task_id |-> "task-a", raised |-> FALSE,
               body |-> [task_id |-> "task-a", status |-> "RUNNING"]]
    /\ calls = NoCalls

\* nothing has been spawned yet
BeforeSpawn(t) == runs[t].attempts.execute = 0

ScanNext ==
    \/ \E t \in TaskIds : BeforeSpawn(t) /\ Dispatch(t)
    \/ \E t \in TaskIds : BeforeSpawn(t) /\ ActivityReturns(t)
    \/ \E t \in TaskIds : BeforeSpawn(t) /\ StartToCloseTimeout(t)
    \/ \E t \in TaskIds : BeforeSpawn(t) /\ WorkerCrash(t)

SpecScan == ScanInit /\ [][ScanNext]_vars

\* the metacharacters the validator is to refuse
DeniedCharacters ==
    {";", "&", "|", Backquote, "$", "(", ")", "{", "}", "<", ">", "\n", "\r"}

HasDenied(text) == \E i \in DOMAIN text : text[i] \in DeniedCharacters

\* the task never passes validation and nothing is ever spawned for it;
\* when its validate activity returns, it raises a ValueError
Refused(t) ==
    /\ runs[t].stage \in {"validate", "failed"}
    /\ CountEvents(runs[t].log, Event("validate", "ok")) = 0
    /\ runs[t].attempts.execute = 0
    /\ procs[t].phase = "none"
    /\ orphans[t] = 0
    /\ (runs[t].attempts.validate = 1 /\ ~runs[t].inflight) =>
          /\ runs[t].stage = "failed"
          /\ runs[t].error.set
          /\ runs[t].error.val.type \in {"ValueError", "TimeoutError"}

ScanTasks == {t \in TaskIds : Exists(t) /\ runs[t].variant = "scan"}

\* C9: a scan whose target or option string holds a deny-listed
\* metacharacter never passes validation and never has a process.
C9_MetacharactersRefused ==
    \A t \in ScanTasks :
        (HasDenied(runs[t].input.target) \/ HasDenied(runs[t].input.nmap_args)) =>
            /\ Refused(t)
            /\ ~validate_scan_input(runs[t].input).ok

C9_Witness ==
    \E t \in ScanTasks :
        /\ ~HasDenied(runs[t].input.target)
        /\ runs[t].input.target # <<>>
        /\ HasDenied(runs[t].input.nmap_args)
        /\ runs[t].stage = "failed"
        /\ runs[t].error.val.type = "ValueError"
        /\ runs[t].error.val.msg = "Arguments contain blocked characters"

\* the flags the validator is to refuse, lower-cased: the output-writing
\* flags, the input-list flag and the data-directory override
DeniedFlags ==
    { <<"-", "o", "n">>, <<"-", "o", "x">>, <<"-", "o", "g">>, <<"-", "o", "a">>,
      <<"-", "i", "l">>,
      <<"-", "-", "d", "a", "t", "a", "d", "i", "r">> }

\* a token names a denied flag once any =value is cut off and it is
\* lower-cased
NamesDeniedFlag(token) ==
    LET cut == IF \E i \in DOMAIN token : token[i] = "="
               THEN SubSeq(token, 1,
                        (CHOOSE i \in DOMAIN token :
                            token[i] = "=" /\ \A j \in 1..(i - 1) : token[j] # "=") - 1)
               ELSE token
    IN  [i \in DOMAIN cut |-> LowerChar(cut[i])] \in DeniedFlags

\* C10: a scan whose option string does not tokenize, or tokenizes to a
\* list holding a denied flag, never passes validation and never has a
\* process.
C10_FlagsRefused ==
    \A t \in ScanTasks :
        LET split == ArgTokens(runs[t].input.nmap_args) IN
        (~split.ok \/ \E k \in DOMAIN split.tokens : NamesDeniedFlag(split.tokens[k])) =>
            /\ Refused(t)
            /\ ~validate_scan_input(runs[t].input).ok

C10_Witness ==
    \E t \in ScanTasks :
        LET split == ArgTokens(runs[t].input.nmap_args) IN
        /\ ~HasDenied(runs[t].input.target)
        /\ ~HasDenied(runs[t].input.nmap_args)
        /\ split.ok
        /\ Len(split.tokens) = 1
        /\ split.tokens[1] = <<"-", "o", "X", "=">>
        /\ runs[t].stage = "failed"
        /\ runs[t].error.val.msg = "Blocked nmap flag"

(***************************************************************************)
(* The server under concurrent tool calls: two shell tasks, started by      *)
(* start_command or run_quick_command, polled, fetched and listed while     *)
(* the engine drives them, and closed from outside now and then.            *)
(***************************************************************************)
DeskCommands == {<<" ">>, <<"l", "s">>}

\* what a process of a desk task writes before it exits
DeskExit(t) ==
    /\ procs[t].out.set =>
          /\ procs[t].out.val.stderr = <<>>
          /\ procs[t].out.val.stdout # <<" ">>
          /\ procs[t].out.val.exit_code = 0 <=> procs[t].out.val.stdout # <<>>

DeskCloses == {"canceled", "terminated"}

DeskNext ==
    \/ \E t \in TaskIds, c \in DeskCommands :
          DrawnId(t) /\ start_task(t, "shell", [command |-> c], <<>>)
    \/ \E t \in TaskIds, c \in DeskCommands :
          DrawnId(t) /\ run_quick_task(t, "shell", [command |-> c])
    \/ run_quick_submits
    \/ run_quick_returns
    \/ \E t \in TaskIds : check_task_status(t)
    \/ \E t \in TaskIds : get_task_results(t)
    \/ list_recent_tasks
    \/ list_resumes
    \/ \E t \in TaskIds : Dispatch(t)
    \/ \E t \in TaskIds : ActivityReturns(t)
    \/ \E t \in TaskIds : ProcExits(t) /\ DeskExit(t)'
    \/ \E t \in TaskIds, how \in DeskCloses : OperatorCloses(t, how)

SpecDesk == Init /\ [][DeskNext]_vars

(***************************************************************************)
(* Two tasks side by side: two shell tasks have been started and the       *)
(* engine drives both pipelines, with failures and retries at every stage, *)
(* in any interleaving, while the caller polls and fetches.                *)
(***************************************************************************)
PairCommands == {<<" ">>, <<"l", "s">>}

PairInit ==
    /\ \E ca \in PairCommands, cb \in PairCommands :
          LET command == [t \in TaskIds |-> IF t = "task-a" THEN ca ELSE cb]
              order == [t \in TaskIds |-> IF t = "task-a" THEN 0 ELSE 1]
          IN  /\ runs = [t \in TaskIds |->
                     NewRun("shell", [command |-> command[t]])]
              /\ registry = [t \in TaskIds |->
                     [present |-> TRUE,
                      input |-> [command |-> command[t]],
                      label |-> [text |-> Prefix(command[t], LABEL_CHARS)],
                      started_at |-> order[t],
                      status |-> "RUNNING"]]
    /\ procs = [t \in TaskIds |-> NoProc]
    /\ orphans = [t \in TaskIds |-> 0]
    /\ resp = [op |-> "start", task_id |-> "task-b", raised |-> FALSE,
               body |-> [task_id |-> "task-b", status |-> "RUNNING"]]
    /\ calls = NoCalls

\* what a process of the pair writes before it exits
PairExit(t) ==
    procs[t].out.set =>
        /\ procs[t].out.val.stderr = <<>>
        /\ procs[t].out.val.stdout # <<" ">>

PairNext ==
    \/ \E t \in TaskIds : Dispatch(t)
    \/ \E t \in TaskIds : ActivityReturns(t)
    \/ \E t \in TaskIds : StartToCloseTimeout(t)
    \/ \E t \in TaskIds : ProcExits(t) /\ PairExit(t)'
    \/ \E t \in TaskIds : check_task_status(t)
    \/ \E t \in TaskIds : get_task_results(t)

SpecPair == PairInit /\ [][PairNext]_vars

(***************************************************************************)
(* The start tool.                                                         *)
(***************************************************************************)
\* the step creates the run or the Task Record of identifier t
Creates(t) ==
    \/ ~Exists(t) /\ runs'[t].stage # "none"
    \/ ~registry[t].present /\ registry'[t].present

\* C11: a step that creates a run or a Task Record is a start that returns
\* its identifier with status RUNNING; the identifier was unused before;
\* the step creates the run and the record together, the run not yet
\* attempted at any stage, the record RUNNING with the input of the run;
\* and no other run or record is touched.
C11_StartReturnsAtOnce ==
    [][\A t \in TaskIds :
          Creates(t) =>
             /\ ~Exists(t)
             /\ ~registry[t].present
             /\ resp'.op = "start"
             /\ ~resp'.raised
             /\ resp'.body.task_id = t
             /\ resp'.body.status = "RUNNING"
             /\ runs'[t].stage = "validate"
             /\ runs'[t].log = <<>>
             /\ ~runs'[t].result.set
             /\ registry'[t].present
             /\ registry'[t].status = "RUNNING"
             /\ registry'[t].input = runs'[t].input
             /\ \A u \in TaskIds \ {t} :
                   runs'[u] = runs[u] /\ registry'[u] = registry[u]]_vars

C11_Witness ==
    /\ resp.op = "start"
    /\ runs[resp.task_id].stage = "validate"
    /\ runs[resp.task_id].log = <<>>
    /\ runs[resp.task_id].variant = "shell"
    /\ ~StripIsEmpty(runs[resp.task_id].input.command)
    /\ registry[resp.task_id].status = "RUNNING"
    /\ registry[resp.task_id].input = runs[resp.task_id].input
    /\ registry[resp.task_id].label = [text |-> <<"L">>]

(***************************************************************************)
(* The status vocabulary.                                                  *)
(***************************************************************************)
RunStatuses == {"RUNNING", "COMPLETED", "FAILED", "UNKNOWN"}

\* the statuses a response carries: its own and those of a listing's entries
RespStatuses ==
    IF resp.op = "none" \/ resp.raised THEN {}
    ELSE IF resp.op = "list"
    THEN {resp.body.tasks[i].status : i \in DOMAIN resp.body.tasks}
    ELSE {resp.body.status}

\* C12: every status returned by check, fetch or list and every status
\* stored in a Task Record is one of RUNNING, COMPLETED, FAILED, UNKNOWN,
\* whatever status the engine reports for the run.
C12_FourStatuses ==
    /\ RespStatuses \subseteq RunStatuses
    /\ \A t \in TaskIds : registry[t].present => registry[t].status \in RunStatuses

(***************************************************************************)
(* Polling and fetching.                                                   *)
(***************************************************************************)
\* C13: check and fetch always return a value that carries a status, never
\* an exception, and for an identifier the engine does not know the status
\* is UNKNOWN.
C13_NeverRaises ==
    resp.op \in {"check", "fetch"} =>
        /\ ~resp.raised
        /\ "status" \in DOMAIN resp.body
        /\ ~Exists(resp.task_id) => resp.body.status = "UNKNOWN"

\* the step is a fetch that answers for identifier t
FetchAnswers(t) ==
    /\ resp' # resp
    /\ resp'.op = "fetch"
    /\ resp'.task_id = t

NotReadyKeys == {"task_id", "status", "error"}

C14_Safe ==
    (resp.op = "fetch" /\ ~resp.raised) =>
        IF resp.body.status = "COMPLETED"
        THEN /\ runs[resp.task_id].stage = "done"
             /\ resp.body.summary = runs[resp.task_id].result.val.summary
        ELSE DOMAIN resp.body = NotReadyKeys

\* C14: a fetch of a run the engine holds returns at once, with the status
\* the run has at that moment: unless that status is COMPLETED the value
\* has the keys task_id, status and error only and the registry is left as
\* it is; the Structured Result is returned only for COMPLETED; and in no
\* case does the fetch change a run or a process.
C14_FetchNotReady ==
    /\ []C14_Safe
    /\ [][\A t \in TaskIds :
            (FetchAnswers(t) /\ Exists(t)) =>
               /\ runs' = runs
               /\ procs' = procs
               /\ orphans' = orphans
               /\ ~resp'.raised
               /\ resp'.body.task_id = t
               /\ resp'.body.status =
                      normalize_workflow_status(EngineStatus(runs[t]))
               /\ runs[t].stage # "done" =>
                      /\ DOMAIN resp'.body = NotReadyKeys
                      /\ registry' = registry
               /\ runs[t].stage = "done" =>
                      /\ resp'.body.status = "COMPLETED"
                      /\ \A k \in DOMAIN runs[t].result.val :
                            resp'.body[k] = runs[t].result.val[k]]_vars

C14_Witness ==
    /\ resp.op = "fetch"
    /\ ~resp.raised
    /\ resp.body.status = "TERMINATED"
    /\ DOMAIN resp.body = NotReadyKeys
    /\ runs[resp.task_id].stage = "terminated"
    /\ runs[resp.task_id].attempts.execute = 1
    /\ registry[resp.task_id].status = "RUNNING"

\* a fetch response that reports COMPLETED for identifier t
DoneFetch(r, t) ==
    /\ r.op = "fetch"
    /\ ~r.raised
    /\ r.task_id = t
    /\ r.body.status = "COMPLETED"

C15_Safe ==
    \A t \in TaskIds :
        DoneFetch(resp, t) =>
            /\ runs[t].stage = "done"
            /\ resp.body =
                  Spread([task_id |-> t, status |-> "COMPLETED"],
                         StructuredFrom(runs[t].variant, procs[t].out.val))

\* C15: every fetch that answers COMPLETED for a task returns the same
\* value: the task identifier, COMPLETED and the fields of the Structured
\* Result of the run, which no later step of this or another task changes;
\* two such fetches in a row, whatever the engine and the other calls did
\* in between, return equal values.
C15_FetchIdempotent ==
    /\ []C15_Safe
    /\ [][\A t \in TaskIds :
            /\ runs[t].stage = "done" =>
                  runs'[t] = runs[t] /\ procs'[t] = procs[t]
            /\ (DoneFetch(resp, t) /\ DoneFetch(resp', t)) =>
                  resp'.body = resp.body]_vars

C15_Witness ==
    \E t \in TaskIds, u \in TaskIds :
        /\ t # u
        /\ DoneFetch(resp, t)
        /\ registry[t].status = "COMPLETED"
        /\ runs[u].stage = "failed"
        /\ registry[u].status = "FAILED"

(***************************************************************************)
(* Listing.                                                                *)
(***************************************************************************)
\* C16: a listing always returns, with one entry for every Task Record, a
\* failed status query showing as UNKNOWN in its entry only.
C16_ListNeverAborts ==
    resp.op = "list" =>
        /\ ~resp.raised
        /\ resp.body.total = Len(resp.body.tasks)
        /\ \A i, j \in DOMAIN resp.body.tasks :
              resp.body.tasks[i].task_id = resp.body.tasks[j].task_id => i = j
        /\ \A i \in DOMAIN resp.body.tasks :
              /\ registry[resp.body.tasks[i].task_id].present
              /\ registry[resp.body.tasks[i].task_id].started_at = i - 1

(***************************************************************************)
(* Isolation of tasks.                                                     *)
(***************************************************************************)
\* C17: what a fetch returns under an identifier is the Structured Result
\* of the output of that task's own process: its stdout, stderr and exit
\* code and the summary made of them; and the value the execute stage
\* stored for the task is the output of the task's own process.
C17_OwnOutputOnly ==
    \A t \in TaskIds :
        /\ runs[t].raw.set =>
              /\ procs[t].out.set
              /\ runs[t].raw.val = run_shell_command(procs[t].out.val).val
        /\ DoneFetch(resp, t) =>
              /\ resp.body.stdout = Decode(procs[t].out.val.stdout)
              /\ resp.body.stderr = Decode(procs[t].out.val.stderr)
              /\ resp.body.exit_code = procs[t].out.val.exit_code
              /\ resp.body.summary =
                    format_output(run_shell_command(procs[t].out.val).val).val.summary

\* the fetched task and the other one have both completed, after execute
\* attempts that were retried, on different outputs
C17_Witness ==
    \E t \in TaskIds, u \in TaskIds :
        /\ t # u
        /\ DoneFetch(resp, t)
        /\ runs[u].stage = "done"
        /\ runs[t].attempts.execute > 1
        /\ runs[u].attempts.execute > 1
        /\ procs[t].out.val.stdout # procs[u].out.val.stdout
        /\ procs[t].out.val.exit_code # procs[u].out.val.exit_code

\* the engine can start the next attempt the run of u is waiting for
CanGoOn(u) ==
    (Active(u) /\ ~runs[u].inflight) => ENABLED Dispatch(u)

\* C18: the step in which one task becomes FAILED leaves the run, the
\* attempt counters, the result, the process and the Task Record of every
\* other task as they were, and a task that is waiting for its next
\* attempt can be given it whatever has become of the other task.
C18_FailureIsLocal ==
    /\ [](\A u \in TaskIds : CanGoOn(u))
    /\ [][\A t \in TaskIds :
            (runs[t].stage # "failed" /\ runs'[t].stage = "failed") =>
               \A u \in TaskIds \ {t} :
                  /\ runs'[u] = runs[u]
                  /\ procs'[u] = procs[u]
                  /\ orphans'[u] = orphans[u]
                  /\ registry'[u] = registry[u]]_vars

\* one task has failed in validation while the other, then in the middle
\* of an execute attempt, has gone on to complete
C18_Witness ==
    \E t \in TaskIds, u \in TaskIds :
        /\ t # u
        /\ runs[t].stage = "failed"
        /\ runs[t].error.val.type = "ValueError"
        /\ runs[u].stage = "done"
        /\ runs[u].attempts.execute = 2
        /\ registry[u].status = "COMPLETED"

(***************************************************************************)
(* Identifiers.                                                            *)
(***************************************************************************)
C19_Safe ==
    \A t \in TaskIds :
        /\ (Exists(t) /\ registry[t].present) =>
              registry[t].input = runs[t].input
        /\ (calls.quick.active /\ calls.quick.task_id = t) =>
              /\ registry[t].present
              /\ registry[t].input = calls.quick.input
              /\ Exists(t) = calls.quick.submitted

\* the run_quick_command call that wrote the record of t has yet to submit
\* its run
OwnSubmission(t) ==
    /\ calls.quick.active
    /\ calls.quick.task_id = t
    /\ ~calls.quick.submitted
    /\ ~Exists(t)

\* C19: a run or a Task Record comes into being only under an identifier
\* that neither the engine nor the registry holds (or, for the run of
\* run_quick_command, holds only through the record that same call has
\* just written); once an identifier is
\* held, no step starts another run under it (its run only moves on) and
\* no step replaces its Task Record (only the status changes); the record
\* and the run under one identifier are of the same input.
C19_OneRunPerId ==
    /\ []C19_Safe
    /\ [][\A t \in TaskIds :
            /\ Creates(t) => (~Used(t) \/ OwnSubmission(t))
            /\ Exists(t) =>
                  /\ runs'[t].input = runs[t].input
                  /\ runs'[t].variant = runs[t].variant
                  /\ Len(runs'[t].log) >= Len(runs[t].log)
                  /\ \A s \in Stages : runs'[t].attempts[s] >= runs[t].attempts[s]
                  /\ ~Active(t) => runs'[t] = runs[t]
            /\ registry[t].present =>
                  [registry'[t] EXCEPT !.status = registry[t].status]
                      = registry[t]]_vars

\* both identifiers are held, one given out by start_command and one by
\* run_quick_command, which has returned the result of its run
C19_Witness ==
    /\ resp.op = "quick"
    /\ ~resp.raised
    /\ resp.task_id = "task-b"
    /\ runs["task-b"].stage = "done"
    /\ registry["task-b"].status = "COMPLETED"
    /\ runs["task-a"].stage = "failed"
    /\ registry["task-a"].status = "RUNNING"
    /\ registry["task-a"].input # registry["task-b"].input

(***************************************************************************)
(* Processes of aborted attempts.                                          *)
(***************************************************************************)
\* C20: no process spawned by an execute attempt that the engine has ended
\* (deadline passed or heartbeat lost) is still alive once the attempt has
\* ended.
C20_NoProcessOutlivesAttempt ==
    \A t \in TaskIds : orphans[t] = 0

(***************************************************************************)
(* The shell structurer over outputs around its preview limits: one task   *)
(* whose process has exited with the drawn output, taken through the end   *)
(* of the execute stage, the structure stage and the fetch.                *)
(***************************************************************************)
MaxExcess == 2

\* a text of n characters: all c, or blanks closed by one c
Fill(n, c, blanks) ==
    IF n = 0 THEN <<>>
    ELSE [i \in 1..n |-> IF blanks /\ i < n THEN " " ELSE c]

FormatLengths(limit) == {0, 1} \cup ((limit - 1)..(limit + MaxExcess))

FormatStdouts ==
    {Fill(n, "x", FALSE) : n \in FormatLengths(STDOUT_PREVIEW)}
        \cup {Fill(n, " ", FALSE) : n \in FormatLengths(STDOUT_PREVIEW)}
        \cup {Fill(n, "y", TRUE) : n \in FormatLengths(STDOUT_PREVIEW)}
        \cup {TruncatedSuffix}

FormatStderrs ==
    {Fill(n, "e", FALSE) : n \in {0, STDERR_PREVIEW, STDERR_PREVIEW + 1}}

FormatInit ==
    /\ \E o \in [stdout : FormatStdouts, stderr : FormatStderrs,
                 exit_code : ExitCodes] :
          /\ runs = [t \in TaskIds |->
                IF t \in FreshIds
                THEN [NewRun("shell", [command |-> <<"l", "s">>]) EXCEPT
                         !.stage = "execute",
                         !.attempts = [validate |-> 1, execute |-> 1,
                                       structure |-> 0],
                         !.inflight = TRUE,
                         !.log = <<Event("validate", "dispatch"),
                                   Event("validate", "ok"),
                                   Event("execute", "dispatch")>>]
                ELSE NoRun]
          /\ procs = [t \in TaskIds |->
                IF t \in FreshIds
                THEN [phase |-> "exited", out |-> Some(o)]
                ELSE NoProc]
    /\ registry = [t \in TaskIds |->
          IF t \in FreshIds
          THEN [present |-> TRUE,
                input |-> [command |-> <<"l", "s">>],
                label |-> [text |-> <<"l", "s">>],
                started_at |-> 0,
                status |-> "RUNNING"]
          ELSE NoRecord]
    /\ orphans = [t \in TaskIds |-> 0]
    /\ resp = [op |-> "start", task_id |-> "task-a", raised |-> FALSE,
               body |-> [task_id |-> "task-a", status |-> "RUNNING"]]
    /\ calls = NoCalls

FormatNext ==
    \/ \E t \in FreshIds : Dispatch(t)
    \/ \E t \in FreshIds : ActivityReturns(t)
    \/ \E t \in FreshIds : get_task_results(t)

SpecFormat == FormatInit /\ [][FormatNext]_vars

\* sub occurs in s
Contains(s, sub) ==
    \E i \in 0..(Len(s) - Len(sub)) : SubSeq(s, i + 1, i + Len(sub)) = sub

TruncatedMarker == <<"[", "t", "r", "u", "n", "c", "a", "t", "e", "d", "]">>

Structured(t) == runs[t].variant = "shell" /\ runs[t].result.set

\* C21 as stated: a stdout longer than 2000 characters gives a summary that
\* contains its first 2000 characters immediately followed by [truncated];
\* a stdout of at most 2000 characters gives a summary without the marker.
C21_TruncationLaw ==
    \A t \in TaskIds :
        Structured(t) =>
            LET stdout == runs[t].raw.val.stdout
                summary == runs[t].result.val.summary
            IN  IF Len(stdout) > 2000
                THEN Contains(summary, SubSeq(stdout, 1, 2000) \o TruncatedMarker)
                ELSE ~Contains(summary, TruncatedMarker)

\* the labelled block the amended law expects for a stream
C21_Block(name, text, limit) ==
    <<"\n">> \o name \o <<" ", "(">> \o Str(Len(text)) \o <<" ", "b", "y", "t", "e", "s", ")", ":", "\n">>
        \o (IF Len(text) > limit
            THEN SubSeq(text, 1, limit) \o <<" ">> \o TruncatedMarker
            ELSE text)

\* C21, amended: a stdout with a non-blank character gives a stdout block
\* that holds exactly its first 2000 characters, followed by a space and
\* [truncated] exactly when stdout is longer than 2000 characters; a stdout
\* of blanks only, of any length, gives the no-output line with neither
\* preview nor marker; and a non-blank stderr gives a block of its first 500
\* characters with the same marker when it is longer, so the summary of a
\* short stdout can contain the marker.
C21_TruncationLaw_Amended ==
    \A t \in TaskIds :
        Structured(t) =>
            LET stdout == runs[t].raw.val.stdout
                stderr == runs[t].raw.val.stderr
                summary == runs[t].result.val.summary
                head == <<"C", "o", "m", "m", "a", "n", "d", " ", "e", "x", "i", "t", "e", "d", " ", "w", "i", "t", "h", " ", "c", "o", "d", "e", " ">> \o Str(runs[t].raw.val.exit_code) \o <<".">>
                out == IF \E i \in DOMAIN stdout : ~IsSpace(stdout[i])
                       THEN C21_Block(<<"s", "t", "d", "o", "u", "t">>, stdout, 2000)
                       ELSE <<"\n", "N", "o", " ", "s", "t", "d", "o", "u", "t", " ", "o", "u", "t", "p", "u", "t", ".">>
                err == IF \E i \in DOMAIN stderr : ~IsSpace(stderr[i])
                       THEN <<"\n">> \o C21_Block(<<"s", "t", "d", "e", "r", "r">>, stderr, 500)
                       ELSE <<>>
            IN  summary = head \o <<"\n">> \o out \o err

\* a non-blank stdout one character over the limit has been structured
C21_Witness ==
    \E t \in TaskIds :
        /\ Structured(t)
        /\ Len(runs[t].raw.val.stdout) = 2001
        /\ runs[t].raw.val.stdout[1] = "x"
        /\ Contains(runs[t].result.val.summary, TruncatedMarker)

\* a check or a fetch of t returns a value in this step
Answers(t, op) ==
    /\ resp' # resp
    /\ resp'.op = op
    /\ resp'.task_id = t
    /\ ~resp'.raised

\* C22: when a check or a fetch of a known task returns an observed status
\* that differs from the cached one, the Task Record holds the observed
\* status at the return, for each of the four observed status values.
C22_CacheFollowsObservation ==
    [][\A t \in TaskIds : \A op \in {"check", "fetch"} :
          (/\ Answers(t, op)
           /\ registry[t].present
           /\ resp'.body.status \in {"RUNNING", "COMPLETED", "FAILED", "UNKNOWN"}
           /\ resp'.body.status # registry[t].status)
              => registry'[t].status = resp'.body.status]_vars

(***************************************************************************)
(* The desk with a run the registry does not know: the engine holds a run  *)
(* under task-a that another server process started, so the registry of    *)
(* this process begins empty while check and fetch of task-a are answered. *)
(***************************************************************************)
FrameInit ==
    /\ runs = [t \in TaskIds |->
          IF t = "task-a" THEN NewRun("shell", [command |-> <<"l", "s">>])
          ELSE NoRun]
    /\ procs = [t \in TaskIds |-> NoProc]
    /\ orphans = [t \in TaskIds |-> 0]
    /\ registry = [t \in TaskIds |-> NoRecord]
    /\ resp = [op |-> "none"]
    /\ calls = NoCalls

SpecFrame == FrameInit /\ [][DeskNext]_vars

\* the step is the one in which a start of t returns, or in which a
\* run_blocking call under t writes its record
Inserts(t) ==
    \/ /\ resp' # resp
       /\ resp'.op = "start"
       /\ resp'.task_id = t
       /\ ~resp'.raised
    \/ /\ ~calls.quick.active
       /\ calls'.quick.active
       /\ calls'.quick.task_id = t

\* the step is one of a check, a fetch or a list
Reads ==
    \/ resp' # resp /\ resp'.op \in {"check", "fetch", "list"}
    \/ calls'.list # calls.list

\* C23: the key set of the registry only grows, and only in a step of start
\* or run_blocking; no step changes the input, label or creation timestamp
\* of a record; no step of check, fetch or list adds or removes a key; and a
\* check or fetch of an identifier the registry does not hold leaves the
\* registry as it was.
C23_RegistryFrame ==
    [][/\ \A t \in TaskIds :
             /\ registry[t].present =>
                   /\ registry'[t].present
                   /\ registry'[t].input = registry[t].input
                   /\ registry'[t].label = registry[t].label
                   /\ registry'[t].started_at = registry[t].started_at
             /\ (~registry[t].present /\ registry'[t].present) => Inserts(t)
       /\ Reads =>
             \A t \in TaskIds : registry'[t].present = registry[t].present
       /\ (/\ resp' # resp
           /\ resp'.op \in {"check", "fetch"}
           /\ ~registry[resp'.task_id].present) => registry' = registry]_vars

\* a fetch has returned the result of a completed run the registry does not
\* hold, while the registry holds another record
C23_Witness ==
    /\ resp.op = "fetch"
    /\ ~resp.raised
    /\ resp.body.status = "COMPLETED"
    /\ ~registry[resp.task_id].present
    /\ \E t \in TaskIds : registry[t].present

(***************************************************************************)
(* The engine connection of one server process.  _get_client runs at the   *)
(* start of every tool call; tool calls are handled concurrently on one    *)
(* event loop and interleave at the awaits of Client.connect and of        *)
(* asyncio.sleep.  calls.client is the global _temporal_client (the value  *)
(* names the call whose Client.connect created the object), and            *)
(* calls.getters[c] is the position of tool call c inside _get_client.     *)
(***************************************************************************)
TEMPORAL_CONNECT_RETRIES == 60
TEMPORAL_RETRY_DELAY_SECONDS == 2

ToolCalls == {"call-1", "call-2"}

Idle == [pc |-> "idle"]

ConnectInit ==
    /\ runs = [t \in TaskIds |-> NoRun]
    /\ procs = [t \in TaskIds |-> NoProc]
    /\ orphans = [t \in TaskIds |-> 0]
    /\ registry = [t \in TaskIds |-> NoRecord]
    /\ resp = [op |-> "none"]
    /\ calls = [list |-> [active |-> FALSE],
                quick |-> [active |-> FALSE],
                client |-> NoValue,
                connects |-> 0,
                gave_up |-> FALSE,
                getters |-> [c \in ToolCalls |-> Idle]]

\* A tool call arrives and enters _get_client: with the global set it
\* returns it at once, else it begins the first attempt and suspends in
\* Client.connect.
get_client_enters(c) ==
    /\ calls.getters[c].pc = "idle"
    /\ calls' = [calls EXCEPT !.getters[c] =
           IF calls.client.set
           THEN [pc |-> "returned", client |-> calls.client.val]
           ELSE [pc |-> "connecting", attempt |-> 1, waited |-> 0]]
    /\ UNCHANGED <<runs, procs, orphans, registry, resp>>

\* Client.connect of the call's current attempt answers.  A success is
\* assigned to the global and ends the loop; a failure before the last
\* attempt suspends the call in asyncio.sleep; after the last attempt the
\* call raises unless the global has been set meanwhile.
connect_answers(c) ==
    /\ calls.getters[c].pc = "connecting"
    /\ \E connected \in BOOLEAN :
          IF connected
          THEN /\ calls' = [calls EXCEPT
                      !.client = Some(c),
                      !.connects = @ + 1,
                      !.getters[c] = [pc |-> "returned", client |-> c]]
               /\ UNCHANGED resp
          ELSE IF calls.getters[c].attempt < TEMPORAL_CONNECT_RETRIES
          THEN /\ calls' = [calls EXCEPT !.getters[c].pc = "sleeping"]
               /\ UNCHANGED resp
          ELSE IF calls.client.set
          THEN /\ calls' = [calls EXCEPT !.getters[c] =
                      [pc |-> "returned", client |-> calls.client.val]]
               /\ UNCHANGED resp
          ELSE /\ calls' = [calls EXCEPT
                      !.gave_up = TRUE,
                      !.getters[c] = [pc |-> "raised"]]
               /\ resp' = [op |-> "tool", call |-> c, raised |-> TRUE,
                           body |-> [error |-> "RuntimeError"]]
    /\ UNCHANGED <<runs, procs, orphans, registry>>

\* asyncio.sleep(TEMPORAL_RETRY_DELAY_SECONDS) ends and the loop goes to
\* its next attempt without looking at the global.
sleep_ends(c) ==
    /\ calls.getters[c].pc = "sleeping"
    /\ calls' = [calls EXCEPT !.getters[c] =
           [pc |-> "connecting",
            attempt |-> calls.getters[c].attempt + 1,
            waited |-> calls.getters[c].waited + TEMPORAL_RETRY_DELAY_SECONDS]]
    /\ UNCHANGED <<runs, procs, orphans, registry, resp>>

\* The tool call is over: it went on with the client it was given, or its
\* RuntimeError was reported to the caller.  The server keeps serving.
tool_call_ends(c) ==
    /\ calls.getters[c].pc \in {"returned", "raised"}
    /\ calls' = [calls EXCEPT !.getters[c] = Idle]
    /\ UNCHANGED <<runs, procs, orphans, registry, resp>>

ConnectNext ==
    \/ \E c \in ToolCalls : get_client_enters(c)
    \/ \E c \in ToolCalls : connect_answers(c)
    \/ \E c \in ToolCalls : sleep_ends(c)
    \/ \E c \in ToolCalls : tool_call_ends(c)

SpecConnect == ConnectInit /\ [][ConnectNext]_vars

\* call c begins a connection attempt in this step
Attempts(c) ==
    /\ calls'.getters[c].pc = "connecting"
    /\ calls.getters[c].pc # "connecting"

\* C24: connection establishment makes at most 60 attempts, 2 units apart,
\* and once the 60th has failed the server is down for good: no connection
\* attempt is made afterwards.
C24_ConnectTerminates ==
    /\ [](\A c \in ToolCalls :
             calls.getters[c].pc \in {"connecting", "sleeping"} =>
                 /\ calls.getters[c].attempt <= 60
                 /\ calls.getters[c].waited = 2 * (calls.getters[c].attempt - 1))
    /\ [][\A c \in ToolCalls : calls.gave_up => ~Attempts(c)]_vars

\* C30: in one server process Client.connect succeeds at most once, and
\* all tool calls go on with the same client object.
C30_OneClient ==
    /\ calls.connects <= 1
    /\ \A c1, c2 \in ToolCalls :
          (calls.getters[c1].pc = "returned" /\ calls.getters[c2].pc = "returned")
              => calls.getters[c1].client = calls.getters[c2].client

(***************************************************************************)
(* Inside one execute attempt: the process writes to two pipes of bounded  *)
(* capacity, the two _read_stream tasks drain them, and the activity       *)
(* coroutine polls the tasks in its heartbeat loop, then awaits them and   *)
(* proc.wait().  In this specification procs[t] holds the process together *)
(* with the coroutines that serve it:                                      *)
(*   todo[s]    units the process still has to write to stream s           *)
(*   pipe[s]    units in the pipe of s, at most PIPE_CAPACITY              *)
(*   closed[s]  the process has closed its end of s                        *)
(*   got[s]     units the drain task of s has accumulated                  *)
(*   done[s]    the drain task of s has returned                           *)
(*   pc         position of the activity coroutine                         *)
(*   beats      liveness signals emitted (counted up to MaxBeats)          *)
(*   since      time units since the last liveness signal, in the loop     *)
(***************************************************************************)
MaxWrites == 2
MaxBeats == 2
PIPE_CAPACITY == 1
HEARTBEAT_INTERVAL_SECONDS == 10

Streams == {"stdout", "stderr"}

DrainInit ==
    /\ \E n_out \in 0..MaxWrites, n_err \in 0..MaxWrites :
          procs = [t \in TaskIds |->
              IF t \in FreshIds
              THEN [phase |-> "open",
                    out |-> NoValue,
                    alive |-> TRUE,
                    todo |-> [stdout |-> n_out, stderr |-> n_err],
                    pipe |-> [s \in Streams |-> 0],
                    closed |-> [s \in Streams |-> FALSE],
                    got |-> [s \in Streams |-> 0],
                    done |-> [s \in Streams |-> FALSE],
                    pc |-> "spawned",
                    beats |-> 0,
                    since |-> 0,
                    exit_code |-> NoValue]
              ELSE NoProc]
    /\ runs = [t \in TaskIds |->
          IF t \in FreshIds
          THEN [NewRun("shell", [command |-> <<"l", "s">>]) EXCEPT
                   !.stage = "execute",
                   !.attempts = [validate |-> 1, execute |-> 1, structure |-> 0],
                   !.inflight = TRUE,
                   !.log = <<Event("validate", "dispatch"),
                             Event("validate", "ok"),
                             Event("execute", "dispatch")>>]
          ELSE NoRun]
    /\ registry = [t \in TaskIds |->
          IF t \in FreshIds
          THEN [present |-> TRUE,
                input |-> [command |-> <<"l", "s">>],
                label |-> [text |-> <<"l", "s">>],
                started_at |-> 0,
                status |-> "RUNNING"]
          ELSE NoRecord]
    /\ orphans = [t \in TaskIds |-> 0]
    /\ resp = [op |-> "start", task_id |-> "task-a", raised |-> FALSE,
               body |-> [task_id |-> "task-a", status |-> "RUNNING"]]
    /\ calls = NoCalls

\* The process writes one unit to stream s; the write blocks while the
\* pipe is full.
proc_writes(t, s) ==
    /\ procs[t].alive
    /\ procs[t].todo[s] > 0
    /\ procs[t].pipe[s] < PIPE_CAPACITY
    /\ procs' = [procs EXCEPT ![t].todo[s] = @ - 1, ![t].pipe[s] = @ + 1]
    /\ UNCHANGED <<runs, orphans, registry, resp, calls>>

\* The process closes stream s, having written all it had for it.
proc_closes(t, s) ==
    /\ procs[t].alive
    /\ procs[t].todo[s] = 0
    /\ ~procs[t].closed[s]
    /\ procs' = [procs EXCEPT ![t].closed[s] = TRUE]
    /\ UNCHANGED <<runs, orphans, registry, resp, calls>>

\* The process exits, which closes the streams it still had open.
proc_exits(t) ==
    /\ procs[t].alive
    /\ \A s \in Streams : procs[t].todo[s] = 0
    /\ \E code \in ExitCodes :
          procs' = [procs EXCEPT
              ![t].alive = FALSE,
              ![t].closed = [s \in Streams |-> TRUE],
              ![t].exit_code = Some(code)]
    /\ UNCHANGED <<runs, orphans, registry, resp, calls>>

\* drain tasks that run as soon as they are created, before the loop is
\* entered
DrainReady_at_creation(t, s) == ~procs[t].done[s]

\* drain tasks that run one after the other: stderr is read only after the
\* stdout task has returned
DrainReady_in_turn(t, s) ==
    /\ procs[t].pc # "spawned"
    /\ ~procs[t].done[s]
    /\ s = "stderr" => procs[t].done["stdout"]

\* asyncio.create_task(_read_stream(...)) twice: each task runs whenever
\* the activity coroutine is suspended, independently of the other
DrainReady(t, s) ==
    /\ procs[t].pc # "spawned"
    /\ ~procs[t].done[s]

\* One turn of _read_stream for stream s: stream.read(65536) returns what
\* the pipe holds, which is appended, or returns empty at end of file,
\* which ends the task.
read_stream(t, s) ==
    /\ DrainReady(t, s)
    /\ \/ /\ procs[t].pipe[s] > 0
          /\ procs' = [procs EXCEPT
                 ![t].got[s] = @ + procs[t].pipe[s],
                 ![t].pipe[s] = 0]
       \/ /\ procs[t].pipe[s] = 0
          /\ procs[t].closed[s]
          /\ procs' = [procs EXCEPT ![t].done[s] = TRUE]
    /\ UNCHANGED <<runs, orphans, registry, resp, calls>>

\* a loop that goes on only while both drain tasks are incomplete
LoopGoesOn_both(t) ==
    ~procs[t].done["stdout"] /\ ~procs[t].done["stderr"]

\* while not stdout_task.done() or not stderr_task.done()
LoopGoesOn(t) ==
    ~procs[t].done["stdout"] \/ ~procs[t].done["stderr"]

\* The loop test and, when it holds, the heartbeat and the entry into
\* asyncio.sleep(10); run when the activity starts and after every sleep.
heartbeat_loop(t) ==
    /\ procs[t].pc \in {"spawned", "woken"}
    /\ procs' = IF LoopGoesOn(t)
                THEN [procs EXCEPT
                         ![t].pc = "sleep",
                         ![t].beats = IF @ < MaxBeats THEN @ + 1 ELSE @,
                         ![t].since = 0]
                ELSE [procs EXCEPT ![t].pc = "await_drains"]
    /\ UNCHANGED <<runs, orphans, registry, resp, calls>>

\* asyncio.sleep(10) returns.
heartbeat_sleep_ends(t) ==
    /\ procs[t].pc = "sleep"
    /\ procs' = [procs EXCEPT
           ![t].pc = "woken",
           ![t].since = @ + HEARTBEAT_INTERVAL_SECONDS]
    /\ UNCHANGED <<runs, orphans, registry, resp, calls>>

\* await stdout_task; await stderr_task
drains_awaited(t) ==
    /\ procs[t].pc = "await_drains"
    /\ \A s \in Streams : procs[t].done[s]
    /\ procs' = [procs EXCEPT ![t].pc = "await_exit"]
    /\ UNCHANGED <<runs, orphans, registry, resp, calls>>

\* exit_code = await proc.wait()
proc_waited(t) ==
    /\ procs[t].pc = "await_exit"
    /\ ~procs[t].alive
    /\ procs' = [procs EXCEPT ![t].pc = "finished", ![t].phase = "exited"]
    /\ UNCHANGED <<runs, orphans, registry, resp, calls>>

DrainNext ==
    \/ \E t \in FreshIds, s \in Streams : proc_writes(t, s)
    \/ \E t \in FreshIds, s \in Streams : proc_closes(t, s)
    \/ \E t \in FreshIds : proc_exits(t)
    \/ \E t \in FreshIds, s \in Streams : read_stream(t, s)
    \/ \E t \in FreshIds : heartbeat_loop(t)
    \/ \E t \in FreshIds : heartbeat_sleep_ends(t)
    \/ \E t \in FreshIds : drains_awaited(t)
    \/ \E t \in FreshIds : proc_waited(t)

SpecDrain == DrainInit /\ [][DrainNext]_vars

\* The event loop runs every coroutine that is ready: the drain tasks, the
\* sleep timer and the activity coroutine.  Nothing is assumed of the
\* process.
FairDrain ==
    /\ SpecDrain
    /\ \A t \in FreshIds :
          /\ \A s \in Streams : WF_vars(read_stream(t, s))
          /\ WF_vars(heartbeat_loop(t))
          /\ WF_vars(heartbeat_sleep_ends(t))
          /\ WF_vars(drains_awaited(t))
          /\ WF_vars(proc_waited(t))

\* the process is held in a write to s
Blocked(t, s) ==
    /\ procs[t].alive
    /\ procs[t].todo[s] > 0
    /\ procs[t].pipe[s] = PIPE_CAPACITY

\* C25: no pipe stays full forever, so the process is never held in a write
\* indefinitely, and once the process has closed both streams and exited
\* the execute attempt finishes.
C25_DrainsKeepUp ==
    \A t \in FreshIds :
        /\ \A s \in Streams : Blocked(t, s) ~> ~Blocked(t, s)
        /\ (~procs[t].alive /\ \A s \in Streams : procs[t].closed[s])
               ~> procs[t].pc = "finished"

\* the attempt has finished after the process wrote more to each stream
\* than its pipe holds, and all of it was collected
C25_Witness ==
    \E t \in FreshIds :
        /\ procs[t].pc = "finished"
        /\ \A s \in Streams : procs[t].got[s] > PIPE_CAPACITY

\* C29: while a drain task is incomplete every pass of the loop emits a
\* liveness signal and sleeps, so that signals are 10 time units apart; the
\* loop is left only with both drain tasks complete; and the exit code is
\* awaited only after both are complete.
C29_SignalsWhileDraining ==
    /\ [](\A t \in FreshIds :
             /\ procs[t].pc = "sleep" => procs[t].since = 0
             /\ procs[t].pc = "woken" => procs[t].since = 10
             /\ procs[t].pc \in {"await_exit", "finished"} =>
                   \A s \in Streams : procs[t].done[s])
    /\ [][\A t \in FreshIds :
             /\ (/\ procs[t].pc \in {"spawned", "woken"}
                 /\ procs'[t].pc # procs[t].pc
                 /\ \E s \in Streams : ~procs[t].done[s])
                    => /\ procs'[t].pc = "sleep"
                       /\ procs'[t].beats = procs[t].beats + 1
                             \/ procs[t].beats = MaxBeats
             /\ (procs[t].pc \in {"spawned", "woken"} /\ procs'[t].pc = "await_drains")
                    => \A s \in Streams : procs[t].done[s]]_vars

\* the loop has signalled a second time and sleeps with one drain task
\* complete and the other not
C29_Witness ==
    \E t \in FreshIds :
        /\ procs[t].pc = "sleep"
        /\ procs[t].beats = 2
        /\ procs[t].done["stdout"]
        /\ ~procs[t].done["stderr"]

\* C26: when a run_blocking call ends, there is one engine run and one Task
\* Record under its identifier and the run is terminal; when it ends by
\* returning, the run completed, the value is the one fetch returns for the
\* identifier, and the record says COMPLETED.
C26_BlockingIsStartThenWait ==
    [][(resp' # resp /\ resp'.op = "quick") =>
          LET t == resp'.task_id
          IN  /\ runs'[t].stage # "none"
              /\ runs'[t].stage \notin Stages
              /\ registry'[t].present
              /\ ~resp'.raised =>
                    /\ runs'[t].stage = "done"
                    /\ resp'.body =
                          Spread([task_id |-> t, status |-> "COMPLETED"],
                                 runs'[t].result.val)
                    /\ registry'[t].status = "COMPLETED"]_vars

(***************************************************************************)
(* The scan structurer over hosts with drawn port lists: one scan task     *)
(* whose execute stage has returned a well-formed document, taken through  *)
(* the structure stage and the fetch.                                      *)
(***************************************************************************)
MaxPorts == 2

PortStates == {Some("open"), Some("closed"), Some("filtered"),
               Some("open|filtered"), NoValue}

PortElements ==
    [portid : {22, 80},
     protocol : {<<"t", "c", "p">>},
     state : PortStates,
     service : {Some(<<"s", "s", "h">>), NoValue}]

\* all port lists of at most n elements
RECURSIVE PortLists(_)
PortLists(n) ==
    IF n = 0 THEN {<<>>}
    ELSE PortLists(n - 1)
            \cup {Append(l, p) : l \in {x \in PortLists(n - 1) : Len(x) = n - 1},
                                 p \in PortElements}

PortTrees ==
    {FixtureTree}
        \cup {[FixtureTree EXCEPT !.hosts[1].ports = l] : l \in PortLists(MaxPorts)}

PortsInit ==
    /\ \E root \in PortTrees :
          runs = [t \in TaskIds |->
              IF t \in FreshIds
              THEN [NewRun("scan", [target |-> <<"1", "0", ".", "0", ".", "0", ".", "1">>, nmap_args |-> <<>>])
                      EXCEPT
                       !.stage = "structure",
                       !.attempts = [validate |-> 1, execute |-> 1,
                                     structure |-> 0],
                       !.raw = Some([chars |-> <<"<", "n", ">">>, wf |-> TRUE,
                                     root |-> root]),
                       !.log = <<Event("validate", "dispatch"),
                                 Event("validate", "ok"),
                                 Event("execute", "dispatch"),
                                 Event("execute", "ok")>>]
              ELSE NoRun]
    /\ procs = [t \in TaskIds |-> NoProc]
    /\ registry = [t \in TaskIds |->
          IF t \in FreshIds
          THEN [present |-> TRUE,
                input |-> [target |-> <<"1", "0", ".", "0", ".", "0", ".", "1">>, nmap_args |-> <<>>],
                label |-> [scan_of |-> <<"1", "0", ".", "0", ".", "0", ".", "1">>],
                started_at |-> 0,
                status |-> "RUNNING"]
          ELSE NoRecord]
    /\ orphans = [t \in TaskIds |-> 0]
    /\ resp = [op |-> "start", task_id |-> "task-a", raised |-> FALSE,
               body |-> [task_id |-> "task-a", status |-> "RUNNING"]]
    /\ calls = NoCalls

SpecPorts == PortsInit /\ [][FormatNext]_vars

\* the item the claim gives for a port
C27_Item(p) ==
    Str(p.portid) \o <<"/">> \o p.protocol \o <<" ", "(">>
        \o (IF p.service.set THEN p.service.val ELSE <<"u", "n", "k", "n", "o", "w", "n">>)
        \o <<")">>

\* C27: the open-ports summary of every parsed host is the comma-joined
\* list, in document order, of the items port/protocol (service) of exactly
\* the ports whose state is the string open; for the host with 22/tcp open
\* running ssh it is 22/tcp (ssh) and the digest contains that line.
C27_OpenPortsSummary ==
    \A t \in TaskIds :
        (runs[t].variant = "scan" /\ runs[t].result.set) =>
            LET hosts == runs[t].result.val.hosts
                elems == runs[t].raw.val.root.hosts
            IN  /\ Len(hosts) = Len(elems)
                /\ \A k \in DOMAIN hosts :
                      LET open == SelectSeq(elems[k].ports,
                                      LAMBDA p : p.state = Some("open"))
                      IN  hosts[k].open_ports_summary =
                             Join([i \in DOMAIN open |-> C27_Item(open[i])],
                                  <<",", " ">>)
                /\ runs[t].raw.val.root = FixtureTree =>
                      /\ hosts[1].open_ports_summary = <<"2", "2", "/", "t", "c", "p", " ", "(", "s", "s", "h", ")">>
                      /\ Contains(runs[t].result.val.summary, <<"\n", " ", " ", "O", "p", "e", "n", " ", "p", "o", "r", "t", "s", ":", " ", "2", "2", "/", "t", "c", "p", " ", "(", "s", "s", "h", ")">>)

\* a host with an open port and a port in state open|filtered has been
\* parsed, and its summary is the one item of the open port
C27_Witness ==
    \E t \in TaskIds :
        /\ runs[t].variant = "scan"
        /\ runs[t].result.set
        /\ \E p, q \in PortElements :
              /\ p.state = Some("open")
              /\ q.state = Some("open|filtered")
              /\ runs[t].raw.val.root.hosts[1].ports = <<q, p>>
              /\ runs[t].result.val.hosts[1].open_ports_summary = C27_Item(p)

\* the execute stage of scan task t has returned a document that is not
\* well-formed XML
Malformed(t) ==
    /\ runs[t].variant = "scan"
    /\ runs[t].raw.set
    /\ ~runs[t].raw.val.wf

\* C28: after a scan execute attempt has returned output that is not
\* well-formed XML, no structure attempt succeeds and no result, partial or
\* whole, is kept; once the 2 structure attempts are used up the task is
\* FAILED; it is never COMPLETED.
C28_MalformedXmlFails ==
    \A t \in TaskIds :
        Malformed(t) =>
            /\ ~runs[t].result.set
            /\ \A i \in DOMAIN runs[t].log :
                  runs[t].log[i].stage = "structure" => runs[t].log[i].what # "ok"
            /\ (runs[t].attempts.structure = 2 /\ ~runs[t].inflight)
                  => /\ runs[t].stage = "failed"
                     /\ normalize_workflow_status(EngineStatus(runs[t])) = "FAILED"
            /\ runs[t].attempts.structure <= 2
            /\ normalize_workflow_status(EngineStatus(runs[t])) # "COMPLETED"

\* a scan task has failed after two structure attempts on a malformed
\* document, the second of which raised the parse error
C28_Witness ==
    \E t \in TaskIds :
        /\ Malformed(t)
        /\ runs[t].stage = "failed"
        /\ runs[t].attempts.structure = 2
        /\ runs[t].error.set
        /\ runs[t].error.val = [type |-> "ParseError"]

\* ---------------------------------------------------------------------
\* The spawn of the scan process: a scan input is validated and, when it
\* passes, the first execute attempt calls create_subprocess_exec.
\* ---------------------------------------------------------------------

MaxSpawnArgsLen == 3

SpawnArgsAlphabet == {"-", "F", " ", "'"}

\* targets with inner and leading blanks, flag-like targets, a blank
\* target and a target holding a metacharacter
SpawnTargets ==
    { <<"h">>, <<"h", " ", "h">>, <<" ", "h">>, <<" ">>,
      <<"-", "o", "N">>, <<"-", "i", "L">>, <<"h", ";">> }

SpawnDraws ==
    [target : SpawnTargets,
     nmap_args : TextsUpTo(SpawnArgsAlphabet, MaxSpawnArgsLen) \cup LongArgs]

SpawnInit ==
    /\ \E scan_input \in SpawnDraws :
          /\ runs = [t \in TaskIds |->
                IF t \in FreshIds THEN NewRun("scan", scan_input) ELSE NoRun]
          /\ registry = [t \in TaskIds |->
                IF t \in FreshIds
                THEN [present |-> TRUE,
                      input |-> scan_input,
                      label |-> [scan_of |-> scan_input.target],
                      started_at |-> 0,
                      status |-> "RUNNING"]
                ELSE NoRecord]
    /\ procs = [t \in TaskIds |-> NoProc]
    /\ orphans = [t \in TaskIds |-> 0]
    /\ resp = [op |-> "start", task_id |-> "task-a", raised |-> FALSE,
               body |-> [task_id |-> "task-a", status |-> "RUNNING"]]
    /\ calls = NoCalls

\* create_subprocess_exec has not been called yet
NotSpawned(t) == procs[t].phase = "none" /\ orphans[t] = 0

SpawnNext ==
    \/ \E t \in TaskIds : NotSpawned(t) /\ Dispatch(t)
    \/ \E t \in TaskIds : NotSpawned(t) /\ ActivityReturns(t)
    \/ \E t \in TaskIds : NotSpawned(t) /\ StartToCloseTimeout(t)
    \/ \E t \in TaskIds : NotSpawned(t) /\ WorkerCrash(t)

SpecSpawn == SpawnInit /\ [][SpawnNext]_vars

Spawned(t) == t \in ScanTasks /\ procs[t].phase # "none"

\* C31: the scan process is nmap itself, never a shell, and its argv is
\* nmap, the tokens of the option string in order, -oX, -, and the
\* target as the one last token.
C31_ArgvLayout ==
    \A t \in TaskIds : Spawned(t) =>
        LET argv == procs[t].argv
            tokens == ArgTokens(runs[t].input.nmap_args).tokens
            n == Len(tokens)
        IN  /\ validate_scan_input(runs[t].input).ok
            /\ Len(argv) = n + 4
            /\ argv[1] = <<"n", "m", "a", "p">>
            /\ \A k \in 1..n : argv[k + 1] = tokens[k]
            /\ argv[n + 2] = <<"-", "o", "X">>
            /\ argv[n + 3] = <<"-">>
            /\ argv[n + 4] = runs[t].input.target

C31_Witness ==
    \E t \in TaskIds :
        /\ Spawned(t)
        /\ runs[t].input.target = <<"h", " ", "h">>
        /\ Len(ArgTokens(runs[t].input.nmap_args).tokens) = 2

\* a token is on the deny list once its =value is cut off and it is
\* lower-cased
DenyListed(token) == Lower(BeforeEquals(token)) \in BLOCKED_FLAGS

\* the argv tokens the caller supplied: all but nmap, -oX and -
CallerTokens(argv) ==
    {argv[k] : k \in (2..(Len(argv) - 3)) \cup {Len(argv)}}

\* C33: no caller-supplied token of the argv of a spawned scan, option
\* or target, is a deny-listed flag.
C33_NoDeniedFlagInArgv ==
    \A t \in TaskIds : Spawned(t) =>
        \A token \in CallerTokens(procs[t].argv) : ~DenyListed(token)

\* the same for the option tokens alone, which the validator does check
C33_NoDeniedOptionInArgv ==
    \A t \in TaskIds : Spawned(t) =>
        \A k \in 2..(Len(procs[t].argv) - 3) : ~DenyListed(procs[t].argv[k])

NoStdoutLine ==
    <<"\n", "N", "o", " ", "s", "t", "d", "o", "u", "t", " ", "o", "u", "t", "p", "u", "t", ".">>

\* C32: the shell summary holds the no-output line exactly when stdout is
\* the empty string; every other stdout, one of blanks only included,
\* gives the labelled stdout block with its length and preview.
C32_NoOutputOnlyWhenEmpty ==
    \A t \in TaskIds :
        Structured(t) =>
            LET stdout == runs[t].raw.val.stdout
                summary == runs[t].result.val.summary
            IN  /\ Contains(summary, NoStdoutLine) <=> (stdout = <<>>)
                /\ stdout # <<>> =>
                      Contains(summary,
                          C21_Block(<<"s", "t", "d", "o", "u", "t">>, stdout, 2000))

\* the processes spawned for a task that have not exited
AliveProcesses(t) == orphans[t] + (IF ProcAlive(t) THEN 1 ELSE 0)

\* C34: at most one process spawned for a task is alive at any instant,
\* also across execute retries.
C34_OneProcessPerTask ==
    \A t \in TaskIds : AliveProcesses(t) <= 1

\* the executor of the current execute attempt is running and the process
\* it spawned has not exited
AttemptAlive(t) ==
    /\ runs[t].stage = "execute"
    /\ runs[t].inflight
    /\ runs[t].worker = "up"
    /\ ProcAlive(t)

\* C35: while an execute attempt is in progress, its executor running and
\* its process not exited, the time since the last liveness signal stays
\* below the 2-minute heartbeat deadline, also after the process has
\* closed both streams: such an attempt is never declared lost.
C35_SignalsWhileProcessRuns ==
    \A t \in TaskIds :
        AttemptAlive(t) => runs[t].beat < HEARTBEAT_TIMEOUT_MINUTES

\* the same while a stream is still open, where the heartbeat loop runs
C35_SignalsWhileStreamsOpen ==
    \A t \in TaskIds :
        (AttemptAlive(t) /\ procs[t].phase = "open") =>
            runs[t].beat < HEARTBEAT_TIMEOUT_MINUTES

\* the statuses the engine can have reported for a run up to now: a run
\* is RUNNING until it closes and keeps its closing status
ReportedSoFar(t) ==
    IF Exists(t)
    THEN {"RUNNING", normalize_workflow_status(EngineStatus(runs[t]))}
    ELSE {}

\* a check or a fetch whose engine query failed
QueryFailed ==
    /\ resp' # resp
    /\ resp'.op \in {"check", "fetch"}
    /\ resp'.raised

\* a list step whose refresh of one entry failed
RefreshFailed ==
    /\ calls.list.active
    /\ calls' # calls
    /\ LET tasks == IF calls'.list.active THEN calls'.list.tasks
                    ELSE IF resp'.raised THEN <<>> ELSE resp'.body.tasks
           pos == Len(calls.list.tasks) + 1
       IN  /\ Len(tasks) >= pos
           /\ tasks[pos].status = "UNKNOWN"

\* C36: the cached status of a Task Record is the initial RUNNING or a
\* status the engine has reported for that identifier; a failed refresh in
\* list and a failed query in check or fetch leave every cached status as
\* it was.
C36_CacheHoldsReportedStatus ==
    /\ [](\A t \in TaskIds :
             registry[t].present =>
                 registry[t].status \in {"RUNNING"} \cup ReportedSoFar(t))
    /\ [][(QueryFailed \/ RefreshFailed) => registry' = registry]_vars

\* a listing has returned an entry UNKNOWN for a record that still says
\* RUNNING, next to a record that holds a closing status the engine
\* reported
C36_Witness ==
    /\ resp.op = "list"
    /\ ~resp.raised
    /\ \E i \in DOMAIN resp.body.tasks :
          /\ resp.body.tasks[i].status = "UNKNOWN"
          /\ registry[resp.body.tasks[i].task_id].status = "RUNNING"
    /\ \E t \in TaskIds :
          /\ registry[t].present
          /\ registry[t].status \in {"COMPLETED", "FAILED", "CANCELED", "TERMINATED"}

\* a run_blocking call has inserted the record of t and has not yet heard
\* from the engine about its submission
AwaitingSubmission(t) ==
    /\ calls.quick.active
    /\ calls.quick.task_id = t
    /\ ~calls.quick.submitted

\* C37: every Task Record belongs to a run the engine accepted under the
\* same identifier; once a submission has failed, neither start nor
\* run_blocking has left a record behind.
C37_RecordsHaveRuns ==
    \A t \in TaskIds :
        registry[t].present => (Exists(t) \/ AwaitingSubmission(t))

\* the number of records the listing set out to return
ListUsed == IF calls.list.active THEN calls.list.used ELSE Size(registry)

\* a list call ends in this step
ListEnds ==
    /\ ~calls'.list.active
    /\ calls.list.active \/ (resp' # resp /\ resp'.op = "list")

\* C38: a list call ends by returning, whatever start or run_blocking
\* inserted while it was suspended on an engine query, and every record
\* that existed when it began is in its result exactly once.
C38_ListSurvivesInserts ==
    [][ListEnds =>
          /\ ~resp'.raised
          /\ \A t \in TaskIds :
                (registry[t].present /\ registry[t].started_at < ListUsed) =>
                    \E i \in DOMAIN resp'.body.tasks :
                        /\ resp'.body.tasks[i].task_id = t
                        /\ \A j \in DOMAIN resp'.body.tasks :
                              resp'.body.tasks[j].task_id = t => j = i]_vars

\* the activity coroutine has left the heartbeat loop
LoopLeft(t) == procs[t].pc \in {"await_drains", "await_exit", "finished"}

\* C39: the completion of the drains is seen only at a poll that follows a
\* sleep: an attempt that has left the heartbeat loop, and so every
\* attempt that returns, has sent at least one liveness signal and has
\* slept one full interval of 10 since its last signal, also when the
\* process exited at once.
C39_OneSignalOneInterval ==
    /\ [](\A t \in FreshIds :
             LoopLeft(t) =>
                 /\ procs[t].beats >= 1
                 /\ procs[t].since >= HEARTBEAT_INTERVAL_SECONDS)
    /\ [][\A t \in FreshIds :
             (LoopLeft(t)' /\ ~LoopLeft(t)) => procs[t].pc = "woken"]_vars

\* an attempt has returned for a process that wrote nothing, after one
\* signal
C39_Witness ==
    \E t \in FreshIds :
        /\ procs[t].pc = "finished"
        /\ \A s \in Streams : procs[t].got[s] = 0
        /\ procs[t].beats = 1

====
